---- MODULE Spec2Model ----
(***************************************************************************)
(* State-machine model of the action-oriented multi-agent orchestrator:    *)
(*   - ActionOrchestrator.execute_objective and its helpers                *)
(*     (src/orchestrator/orchestrator.py),                                 *)
(*   - ExecutionAgent.execute and its sandboxed actions                    *)
(*     (src/agents/execution_agent.py),                                    *)
(*   - the command and path safety checks.                                 *)
(*                                                                         *)
(* Strings are sequences of symbols.  A command is a sequence of           *)
(* one-character symbols, so that the regular expressions of the denylist  *)
(* are matched character by character.  File contents, results and paths   *)
(* are sequences of atomic pieces (no piece is a prefix of another), so    *)
(* that str.replace and str.startswith are computed, not assumed.          *)
(***************************************************************************)
EXTENDS Integers, Sequences, FiniteSets, TLC

VARIABLES
    plan,        \* the task list as the planner returned it (task_specs)
    tasks,       \* Objective.tasks: the plan-ordered list of Task records
    idx,         \* position of the for-loop of execute_objective (1-based)
    pc,          \* control point of the running call
    context,     \* the local dict `context` of execute_objective
    objective,   \* Objective.status / actions_executed / files_generated
    fs,          \* the file system: resolved absolute path -> content
    spawned,     \* the processes started with subprocess.Popen, in order
    dispatched,  \* calls agent.execute(task, context) made by the loop
    validated,   \* calls ValidationAgent.validate(task, result, ...) made
    call,        \* argument record of a direct call of a pure helper
    ret,         \* its return value
    events       \* the updates handed to progress_callback, in order

vars == <<plan, tasks, idx, pc, context, objective, fs, spawned, dispatched,
          validated, call, ret, events>>

----------------------------------------------------------------------------
(* Bounds *)

MaxTasks == 2

----------------------------------------------------------------------------
(* Generic string helpers (Python str operations on symbol sequences) *)

\* Optional[str] = None
None == <<"<None>">>

IsPrefix(p, s) ==
    /\ Len(p) <= Len(s)
    /\ \A n \in 1..Len(p) : s[n] = p[n]

\* pat occurs in s starting at position i
OccursAt(pat, s, i) ==
    /\ i >= 1
    /\ i + Len(pat) - 1 <= Len(s)
    /\ \A n \in 1..Len(pat) : s[i + n - 1] = pat[n]

\* Python: pat in s
Contains(s, pat) == \E i \in 1..(Len(s) + 1) : OccursAt(pat, s, i)

\* Python: s.replace(pat, rep) for a non-empty pat: leftmost,
\* non-overlapping occurrences, the replacement is not rescanned
RECURSIVE ReplaceFrom(_, _, _, _)
ReplaceFrom(s, pat, rep, i) ==
    IF i > Len(s) THEN <<>>
    ELSE IF OccursAt(pat, s, i)
         THEN rep \o ReplaceFrom(s, pat, rep, i + Len(pat))
         ELSE <<s[i]>> \o ReplaceFrom(s, pat, rep, i + 1)

StrReplace(s, pat, rep) == ReplaceFrom(s, pat, rep, 1)

\* Python: str.lower() on the characters commands are built from
LowerChar(c) ==
    CASE c = "R" -> "r"
      [] c = "M" -> "m"
      [] c = "F" -> "f"
      [] c = "S" -> "s"
      [] c = "U" -> "u"
      [] c = "D" -> "d"
      [] c = "O" -> "o"
      [] c = "E" -> "e"
      [] c = "A" -> "a"
      [] c = "I" -> "i"
      [] c = "L" -> "l"
      [] c = "X" -> "x"
      [] c = "C" -> "c"
      [] c = "P" -> "p"
      [] c = "T" -> "t"
      [] c = "N" -> "n"
      [] OTHER   -> c

StrLower(s) == [n \in 1..Len(s) |-> LowerChar(s[n])]

----------------------------------------------------------------------------
(* Regular expressions of the re module, as far as the denylist uses them *)

\* \s of Python's re
IsSpace(c) == c \in {" ", "\t", "\n"}

\* a literal string as a regular expression
Lit(str) == [n \in 1..Len(str) |-> [op |-> "lit", c |-> str[n]]]
WsPlus  == <<[op |-> "ws+", c |-> ""]>>      \* \s+
WsStar  == <<[op |-> "ws*", c |-> ""]>>      \* \s*
AnyStar == <<[op |-> "any*", c |-> ""]>>     \* .*  (the dot excludes newline)

\* re[k..] matches a prefix of s[i..]
RECURSIVE ReMatch(_, _, _, _)
ReMatch(re, k, s, i) ==
    IF k > Len(re) THEN TRUE
    ELSE LET e == re[k] IN
         CASE e.op = "lit" ->
                /\ i <= Len(s)
                /\ s[i] = e.c
                /\ ReMatch(re, k + 1, s, i + 1)
           [] e.op = "ws+" ->
                \E j \in (i + 1)..(Len(s) + 1) :
                    /\ \A m \in i..(j - 1) : IsSpace(s[m])
                    /\ ReMatch(re, k + 1, s, j)
           [] e.op = "ws*" ->
                \E j \in i..(Len(s) + 1) :
                    /\ \A m \in i..(j - 1) : IsSpace(s[m])
                    /\ ReMatch(re, k + 1, s, j)
           [] e.op = "any*" ->
                \E j \in i..(Len(s) + 1) :
                    /\ \A m \in i..(j - 1) : s[m] # "\n"
                    /\ ReMatch(re, k + 1, s, j)

\* re.search(re, s)
ReSearch(re, s) == \E i \in 1..(Len(s) + 1) : ReMatch(re, 1, s, i)

----------------------------------------------------------------------------
(* ExecutionAgent.DANGEROUS_PATTERNS and ExecutionAgent._validate_command *)

DANGEROUS_PATTERNS == <<
    [src |-> "rm\\s+-rf",
     re  |-> Lit(<<"r","m">>) \o WsPlus \o Lit(<<"-","r","f">>)],
    [src |-> "dd\\s+if=",
     re  |-> Lit(<<"d","d">>) \o WsPlus \o Lit(<<"i","f","=">>)],
    [src |-> ":\\(\\)\\s*{\\s*:\\s*;\\s*:\\s*}",
     re  |-> Lit(<<":","(",")">>) \o WsStar \o Lit(<<"{">>) \o WsStar
             \o Lit(<<":">>) \o WsStar \o Lit(<<";">>) \o WsStar
             \o Lit(<<":">>) \o WsStar \o Lit(<<"}">>)],
    [src |-> "sudo",
     re  |-> Lit(<<"s","u","d","o">>)],
    [src |-> "chmod.*777",
     re  |-> Lit(<<"c","h","m","o","d">>) \o AnyStar \o Lit(<<"7","7","7">>)],
    [src |-> "mkfs",
     re  |-> Lit(<<"m","k","f","s">>)],
    [src |-> "shred",
     re  |-> Lit(<<"s","h","r","e","d">>)],
    [src |-> "tee /proc",
     re  |-> Lit(<<"t","e","e"," ","/","p","r","o","c">>)],
    [src |-> ">.*</dev/sd",
     re  |-> Lit(<<">">>) \o AnyStar
             \o Lit(<<"<","/","d","e","v","/","s","d">>)]
>>

\* the indexes of the patterns that re.search finds in command.lower()
MatchingPatterns(command) ==
    {n \in 1..Len(DANGEROUS_PATTERNS) :
        ReSearch(DANGEROUS_PATTERNS[n].re, StrLower(command))}

Min(S) == CHOOSE x \in S : \A y \in S : x <= y

\* returns (is_safe, reason): the first matching pattern, in list order,
\* gives the reason
_validate_command(command) ==
    IF MatchingPatterns(command) = {}
    THEN [is_safe |-> TRUE, reason |-> None]
    ELSE [is_safe |-> FALSE,
          reason  |-> <<"Dangerous pattern detected: ",
                        DANGEROUS_PATTERNS[Min(MatchingPatterns(command))].src>>]

----------------------------------------------------------------------------
(* pathlib: a path string is a sequence of pieces, "/" the separator *)

\* the process's working directory and Path("workspace").resolve()
Cwd == <<<<"cwd">>>>
WORKSPACE_DIR == Cwd \o <<<<"workspace">>>>

IsAbsolute(p) == Len(p) > 0 /\ p[1] = "/"

\* length of the run of pieces of p before the first "/" at or after i
RECURSIVE RunLen(_, _)
RunLen(p, i) ==
    IF i > Len(p) \/ p[i] = "/" THEN 0 ELSE 1 + RunLen(p, i + 1)

\* the components of a path string (empty components are dropped)
RECURSIVE Components(_)
Components(p) ==
    IF p = <<>> THEN <<>>
    ELSE IF Head(p) = "/" THEN Components(Tail(p))
    ELSE LET n == RunLen(p, 1) IN
         <<SubSeq(p, 1, n)>> \o Components(SubSeq(p, n + 1, Len(p)))

\* base / rel: an absolute rel replaces base
PathJoin(base, rel) ==
    IF IsAbsolute(rel) THEN Components(rel) ELSE base \o Components(rel)

\* Path.resolve() without symbolic links: "." is dropped, ".." removes the
\* last component (and is dropped at the root)
RECURSIVE Normalize(_, _)
Normalize(comps, acc) ==
    IF comps = <<>> THEN acc
    ELSE LET c == Head(comps) IN
         IF c = <<".">> THEN Normalize(Tail(comps), acc)
         ELSE IF c = <<"..">>
              THEN Normalize(Tail(comps),
                             IF acc = <<>> THEN <<>>
                             ELSE SubSeq(acc, 1, Len(acc) - 1))
              ELSE Normalize(Tail(comps), Append(acc, c))

Resolve(comps) == Normalize(comps, <<>>)

\* str(path) of an absolute path
RECURSIVE PathStr(_)
PathStr(comps) ==
    IF comps = <<>> THEN <<>>
    ELSE <<"/">> \o Head(comps) \o PathStr(Tail(comps))

\* ExecutionAgent._execute_file_write, lines 163-165: the target and the
\* test `str(target_path).startswith(str(WORKSPACE_DIR))`
TargetPath(rel_path) == Resolve(PathJoin(WORKSPACE_DIR, rel_path))

InWorkspaceByPrefix(target) ==
    IsPrefix(PathStr(WORKSPACE_DIR), PathStr(target))

\* FileManager._is_safe_path with workspace_dir = settings.WORKSPACE_DIR
\* ("./workspace", relative to the working directory)
_is_safe_path(filepath) ==
    LET workspace_dir == <<".", "/", "workspace">>
        abs_path == Resolve(PathJoin(Cwd \o Components(workspace_dir), filepath))
        root     == Resolve(Cwd \o Components(workspace_dir))
    IN  IF ~IsPrefix(PathStr(root), PathStr(abs_path))
        THEN [is_safe |-> FALSE,
              reason  |-> <<"Path outside workspace not allowed">>]
        ELSE [is_safe |-> TRUE, reason |-> None]

----------------------------------------------------------------------------
(* Data model: config/models.py *)

\* a metadata key that is not present in the dict
Absent == <<"<absent>">>

\* Python truthiness of metadata.get(key) for a string value
Truthy(v) == v # Absent /\ v # None /\ v # <<>>

\* Optional[ActionResult] = None
NoAction ==
    [action_type |-> "<None>", success |-> FALSE, output |-> None,
     error |-> None, files_created |-> <<>>]

\* ActionResult(action_type=..., success=..., output=..., error=...,
\* files_created=...)
ActionResult(action_type, success, output, error, files_created) ==
    [action_type |-> action_type, success |-> success, output |-> output,
     error |-> error, files_created |-> files_created]

\* Task(id=..., agent_type=..., dependencies=..., metadata=...) with the
\* defaults of the model class
Task(id, agent_type, dependencies, metadata) ==
    [id |-> id, description |-> <<agent_type, " task ", id>>,
     agent_type |-> agent_type, dependencies |-> dependencies,
     status |-> "pending", result |-> None, error |-> None,
     action_result |-> NoAction, retry_count |-> 0, metadata |-> metadata]

\* a metadata dict with none of the action parameters
NoMeta ==
    [type |-> "<absent>", command |-> Absent, file_path |-> Absent,
     content |-> Absent, url |-> Absent, action |-> Absent,
     start_command |-> Absent]

----------------------------------------------------------------------------
(* The result dict of an action and its JSON text *)

\* a dict with no key
EmptyDict ==
    [success |-> "<absent>", type |-> "<absent>", error |-> Absent,
     command |-> Absent, exit_code |-> "<absent>", stdout |-> Absent,
     file_path |-> Absent, pid |-> "<absent>", status_code |-> "<absent>",
     body |-> Absent]

\* ExecutionAgent._error
_error(message, exec_type, command) ==
    [EmptyDict EXCEPT !.success = "false", !.error = message,
                      !.command = command, !.type = exec_type]

\* dict.get("success", False) / dict.get("success") as a Boolean
DictSuccess(d) == d.success = "true"

\* dict.get(key) / dict.get(key, None) of a string-valued key
DictGet(v) == IF v = Absent THEN None ELSE v

\* json.dumps(result, indent=2): the keys in a fixed order, each followed by
\* its value
Dumps(d) ==
    <<"{", "\"success\":", d.success, "\"type\":", d.type,
      "\"exit_code\":", d.exit_code, "\"pid\":", d.pid,
      "\"status_code\":", d.status_code, "\"error\":">> \o d.error
    \o <<"\"command\":">> \o d.command
    \o <<"\"stdout\":">> \o d.stdout
    \o <<"\"file_path\":">> \o d.file_path
    \o <<"\"body\":">> \o d.body
    \o <<"}">>

----------------------------------------------------------------------------
(* ExecutionAgent: src/agents/execution_agent.py *)

\* Each action takes the outcome `env` of the one external operation it may
\* perform; the caller draws it from EnvOutcomes.
EnvOutcomes(exec_type) ==
    CASE exec_type = "command" -> {"exit0", "exit1", "timeout", "hang",
                                   "spawn_error"}
      [] exec_type = "file"    -> {"ok", "io_error"}
      [] exec_type = "http"    -> {"200", "404", "conn_error"}
      [] exec_type = "server"  -> {"ok", "spawn_error"}
      [] OTHER                 -> {"ok"}

\* an exception raised by a helper and left to its caller
Raise(e) == [EmptyDict EXCEPT !.type = "<raise>", !.error = e]

\* a helper that never returns to its caller
Blocks == [EmptyDict EXCEPT !.type = "<blocks>"]

\* what stands for the return value of a call that never returns
Blocked == <<"<blocked>">>

\* a process started with Popen: "collected" once wait() returned its exit
\* code, "running" while nothing waited for it with success
Proc(command, state) == [command |-> command, state |-> state]

\* Path.write_text on the file system
WriteText(f, path, content) ==
    [x \in (DOMAIN f) \cup {path} |-> IF x = path THEN content ELSE f[x]]

\* _execute_file_write writing an empty file whatever the content
_execute_file_write_truncating(metadata, env, f) ==
    LET rel_path == metadata.file_path
        target_path == TargetPath(rel_path)
    IN  IF ~Truthy(rel_path)
        THEN [dict |-> _error(<<"file_path missing for file execution">>,
                              "file", None),
              fs |-> f]
        ELSE IF ~InWorkspaceByPrefix(target_path)
        THEN [dict |-> _error(<<"File write outside workspace blocked">>,
                              "file", None),
              fs |-> f]
        ELSE IF env = "io_error" \/ target_path = WORKSPACE_DIR
        THEN [dict |-> _error(<<"OSError">>, "file", None), fs |-> f]
        ELSE [dict |-> [EmptyDict EXCEPT !.success = "true",
                                         !.file_path = rel_path,
                                         !.type = "file"],
              fs |-> WriteText(f, PathStr(target_path), <<>>)]

\* _execute_file_write: returns the result dict and the file system
_execute_file_write(metadata, env, f) ==
    LET rel_path == metadata.file_path
        content  == IF metadata.content = Absent THEN <<>>
                    ELSE metadata.content
        target_path == TargetPath(rel_path)
    IN  IF ~Truthy(rel_path)
        THEN [dict |-> _error(<<"file_path missing for file execution">>,
                              "file", None),
              fs |-> f]
        ELSE IF ~InWorkspaceByPrefix(target_path)
        THEN [dict |-> _error(<<"File write outside workspace blocked">>,
                              "file", None),
              fs |-> f]
        ELSE IF env = "io_error" \/ target_path = WORKSPACE_DIR
        THEN [dict |-> _error(<<"OSError">>, "file", None), fs |-> f]
        ELSE [dict |-> [EmptyDict EXCEPT !.success = "true",
                                         !.file_path = rel_path,
                                         !.type = "file"],
              fs |-> WriteText(f, PathStr(target_path), content)]

\* _execute_command without the call of _validate_command
_execute_command_unchecked(metadata, env, sp) ==
    LET command == metadata.command IN
    IF ~Truthy(command)
    THEN [dict |-> _error(<<"No executable command provided (natural language blocked)">>,
                          "command", None),
          spawned |-> sp]
    ELSE IF env = "spawn_error"
    THEN [dict |-> Raise(<<"OSError">>), spawned |-> sp]
    ELSE IF env = "hang"
    THEN [dict |-> Blocks, spawned |-> Append(sp, Proc(command, "running"))]
    ELSE IF env = "timeout"
    THEN [dict |-> _error(<<"Command timeout">>, "command", command),
          spawned |-> Append(sp, Proc(command, "running"))]
    ELSE [dict |-> [EmptyDict EXCEPT
                        !.success = IF env = "exit0" THEN "true" ELSE "false",
                        !.command = command,
                        !.exit_code = IF env = "exit0" THEN "0" ELSE "1",
                        !.stdout = <<"out">>,
                        !.type = "command"],
          spawned |-> Append(sp, Proc(command, "collected"))]

\* _execute_command: returns the result dict and the list of spawned
\* subprocesses. The outcomes of the process: it ends its output and exits
\* ("exit0", "exit1"); it closes its output and outlives the timeout of
\* wait ("timeout"); it keeps its output open, silent or writing, so that
\* the read loop of lines 225-227 never ends ("hang"); Popen raises
\* ("spawn_error").
_execute_command(metadata, env, sp) ==
    LET command == metadata.command IN
    IF ~Truthy(command)
    THEN [dict |-> _error(<<"No executable command provided (natural language blocked)">>,
                          "command", None),
          spawned |-> sp]
    ELSE IF ~_validate_command(command).is_safe
    THEN [dict |-> _error(_validate_command(command).reason, "command",
                          command),
          spawned |-> sp]
    ELSE IF env = "spawn_error"
    THEN [dict |-> Raise(<<"OSError">>), spawned |-> sp]
    ELSE IF env = "hang"
    THEN [dict |-> Blocks, spawned |-> Append(sp, Proc(command, "running"))]
    ELSE IF env = "timeout"
    THEN [dict |-> _error(<<"Command timeout">>, "command", command),
          spawned |-> Append(sp, Proc(command, "running"))]
    ELSE [dict |-> [EmptyDict EXCEPT
                        !.success = IF env = "exit0" THEN "true" ELSE "false",
                        !.command = command,
                        !.exit_code = IF env = "exit0" THEN "0" ELSE "1",
                        !.stdout = <<"out">>,
                        !.type = "command"],
          spawned |-> Append(sp, Proc(command, "collected"))]

\* _execute_http
_execute_http(metadata, env) ==
    IF ~Truthy(metadata.url)
    THEN _error(<<"URL missing for HTTP execution">>, "http", None)
    ELSE IF env = "conn_error"
    THEN _error(<<"ConnectionError">>, "http", None)
    ELSE [EmptyDict EXCEPT
              !.success = IF env = "200" THEN "true" ELSE "false",
              !.status_code = env,
              !.body = <<"body">>,
              !.type = "http"]

\* _execute_server without the test of the action parameter
_execute_server_any_action(metadata, env, sp) ==
    IF ~Truthy(metadata.start_command)
    THEN [dict |-> _error(<<"start_command missing for server start">>,
                          "server", None),
          spawned |-> sp]
    ELSE IF env = "spawn_error"
    THEN [dict |-> _error(<<"OSError">>, "server", None), spawned |-> sp]
    ELSE [dict |-> [EmptyDict EXCEPT !.success = "true", !.pid = "4242",
                                     !.type = "server"],
          spawned |-> Append(sp, Proc(metadata.start_command, "running"))]

\* _execute_server
_execute_server(metadata, env, sp) ==
    IF metadata.action # <<"start">>
    THEN [dict |-> _error(<<"Unsupported server action">>, "server", None),
          spawned |-> sp]
    ELSE IF ~Truthy(metadata.start_command)
    THEN [dict |-> _error(<<"start_command missing for server start">>,
                          "server", None),
          spawned |-> sp]
    ELSE IF env = "spawn_error"
    THEN [dict |-> _error(<<"OSError">>, "server", None), spawned |-> sp]
    ELSE [dict |-> [EmptyDict EXCEPT !.success = "true", !.pid = "4242",
                                     !.type = "server"],
          spawned |-> Append(sp, Proc(metadata.start_command, "running"))]

\* ExecutionAgent.execute: the returned string, the ActionResult attached to
\* the task, the file system and the spawned subprocesses
ExecutionAgent_execute(task, env, f, sp) ==
    LET metadata  == task.metadata
        exec_type == IF metadata.type = "<absent>" THEN "noop"
                     ELSE metadata.type
    IN
    CASE exec_type = "noop" ->
            [result |-> Dumps([EmptyDict EXCEPT !.success = "true",
                                                !.type = "noop"]),
             action_result |-> ActionResult("file_write", TRUE,
                                   <<"No execution required">>, None, <<>>),
             fs |-> f, spawned |-> sp]
      [] exec_type = "command" ->
            LET r == _execute_command(metadata, env, sp) IN
            IF r.dict.type = "<blocks>"
            THEN [result |-> Blocked, action_result |-> NoAction,
                  fs |-> f, spawned |-> r.spawned]
            ELSE
            IF r.dict.type = "<raise>"
            THEN [result |-> Dumps([EmptyDict EXCEPT !.success = "false",
                                                     !.error = r.dict.error,
                                                     !.type = "error"]),
                  action_result |-> ActionResult("code_execute", FALSE, None,
                                        r.dict.error, <<>>),
                  fs |-> f, spawned |-> r.spawned]
            ELSE
            [result |-> Dumps(r.dict),
             action_result |-> ActionResult("command_run",
                                   DictSuccess(r.dict),
                                   IF r.dict.stdout = Absent THEN <<>>
                                   ELSE r.dict.stdout,
                                   DictGet(r.dict.error), <<>>),
             fs |-> f, spawned |-> r.spawned]
      [] exec_type = "http" ->
            LET d == _execute_http(metadata, env) IN
            [result |-> Dumps(d),
             action_result |-> ActionResult("api_call", DictSuccess(d),
                                   IF d.body = Absent THEN <<>> ELSE d.body,
                                   DictGet(d.error), <<>>),
             fs |-> f, spawned |-> sp]
      [] exec_type = "server" ->
            LET r == _execute_server(metadata, env, sp) IN
            [result |-> Dumps(r.dict),
             action_result |-> ActionResult("command_run",
                                   DictSuccess(r.dict),
                                   <<"{\"pid\":", r.dict.pid, "}">>,
                                   DictGet(r.dict.error), <<>>),
             fs |-> f, spawned |-> r.spawned]
      [] exec_type = "file" ->
            LET r == _execute_file_write(metadata, env, f) IN
            [result |-> Dumps(r.dict),
             action_result |-> ActionResult("file_write",
                                   DictSuccess(r.dict),
                                   <<"File created: ">>
                                     \o (IF r.dict.file_path = Absent
                                         THEN <<>> ELSE r.dict.file_path),
                                   DictGet(r.dict.error),
                                   IF DictSuccess(r.dict)
                                   THEN <<r.dict.file_path>> ELSE <<>>),
             fs |-> r.fs, spawned |-> sp]
      [] OTHER ->
            LET d == _error(<<"Unknown execution type: ", exec_type>>,
                            exec_type, None) IN
            [result |-> Dumps(d),
             action_result |-> ActionResult("code_execute", FALSE, None,
                                   d.error, <<>>),
             fs |-> f, spawned |-> sp]

----------------------------------------------------------------------------
(* ActionOrchestrator helpers: src/orchestrator/orchestrator.py *)

\* settings.MAX_RETRIES
MAX_RETRIES == 3

\* dep_id.upper() on the task ids of the model
UpperId(id) ==
    CASE id = "task_1" -> "TASK_1"
      [] id = "task_2" -> "TASK_2"
      [] id = "task_3" -> "TASK_3"
      [] id = "task_4" -> "TASK_4"
      [] id = "task_5" -> "TASK_5"
      [] id = "task_6" -> "TASK_6"
      [] id = "task_7" -> "TASK_7"
      [] id = "task_8" -> "TASK_8"
      [] id = "ghost"  -> "GHOST"
      [] OTHER         -> id

\* f"WILL_BE_REPLACED_WITH_{dep_id.upper()}_OUTPUT"
Placeholder(dep_id) ==
    <<"WILL_BE_REPLACED_WITH_", UpperId(dep_id), "_OUTPUT">>

\* context.get(key)
ContextGet(ctx, key) == IF key \in DOMAIN ctx THEN ctx[key] ELSE None

\* context[key] = value
ContextPut(ctx, key, value) ==
    [x \in (DOMAIN ctx) \cup {key} |-> IF x = key THEN value ELSE ctx[x]]

\* _check_dependencies with an unknown dependency id skipped instead of
\* failing the check (`if dep_task and dep_task.status != COMPLETED`)
_check_dependencies_unknown_ok(task, all_tasks) ==
    IF task.dependencies = <<>> THEN TRUE
    ELSE \A n \in 1..Len(task.dependencies) :
            LET dep_id == task.dependencies[n]
                found  == {j \in 1..Len(all_tasks) : all_tasks[j].id = dep_id}
            IN  found # {} => all_tasks[Min(found)].status = "completed"

\* _check_dependencies: next(...) takes the first task carrying the id
_check_dependencies(task, all_tasks) ==
    IF task.dependencies = <<>> THEN TRUE
    ELSE \A n \in 1..Len(task.dependencies) :
            LET dep_id == task.dependencies[n]
                found  == {j \in 1..Len(all_tasks) : all_tasks[j].id = dep_id}
            IN  /\ found # {}
                /\ all_tasks[Min(found)].status = "completed"

\* the for-loop of _replace_task_placeholders from dependency n on
RECURSIVE ReplaceLoop(_, _, _, _)
ReplaceLoop(content, dependencies, n, ctx) ==
    IF n > Len(dependencies) THEN content
    ELSE LET dep_id      == dependencies[n]
             placeholder == Placeholder(dep_id)
             dep_result  == ContextGet(ctx, dep_id)
         IN  ReplaceLoop(
                 IF Contains(content, placeholder) /\ Truthy(dep_result)
                 THEN StrReplace(content, placeholder, dep_result)
                 ELSE content,
                 dependencies, n + 1, ctx)

\* _replace_task_placeholders looping over every task id instead of the
\* declared dependencies
_replace_task_placeholders_any_task(task, ctx) ==
    IF ~Truthy(task.metadata.content) THEN task.metadata
    ELSE [task.metadata EXCEPT
              !.content = ReplaceLoop(task.metadata.content,
                                      <<"task_1", "task_2", "task_3">>,
                                      1, ctx)]

\* _replace_task_placeholders: the metadata of the task afterwards
_replace_task_placeholders(task, ctx) ==
    IF ~Truthy(task.metadata.content) THEN task.metadata
    ELSE [task.metadata EXCEPT
              !.content = ReplaceLoop(task.metadata.content,
                                      task.dependencies, 1, ctx)]

\* _get_agent_for_task with agents_map[task.agent_type] in place of the
\* .get and its default
_get_agent_for_task_strict(task) ==
    CASE task.agent_type = "execution"   -> "executor"
      [] task.agent_type = "code"        -> "code_agent"
      [] task.agent_type = "research"    -> "research_agent"
      [] task.agent_type = "analysis"    -> "analysis_agent"
      [] task.agent_type = "validation"  -> "validation_agent"
      [] task.agent_type = "coordinator" -> "coordinator"
      [] OTHER                           -> "<KeyError>"

\* _get_agent_for_task: agents_map.get with the executor as the default
_get_agent_for_task(task) ==
    CASE task.agent_type = "execution"   -> "executor"
      [] task.agent_type = "code"        -> "code_agent"
      [] task.agent_type = "research"    -> "research_agent"
      [] task.agent_type = "analysis"    -> "analysis_agent"
      [] task.agent_type = "validation"  -> "validation_agent"
      [] task.agent_type = "coordinator" -> "coordinator"
      [] OTHER                           -> "executor"

\* _determine_status with `any` looking at the first task only
_determine_status_first_only(ts) ==
    IF \A n \in 1..Len(ts) : ts[n].status = "completed" THEN "completed"
    ELSE IF ts[1].status = "completed" THEN "partial"
    ELSE "failed"

\* _determine_status
_determine_status(ts) ==
    IF \A n \in 1..Len(ts) : ts[n].status = "completed" THEN "completed"
    ELSE IF \E n \in 1..Len(ts) : ts[n].status = "completed" THEN "partial"
    ELSE "failed"

\* the tasks of the list with status completed, in the order of the list
CompletedTasks(ts) == SelectSeq(ts, LAMBDA t : t.status = "completed")

\* _aggregate_results with an entry for every task of the plan
_aggregate_results_all_tasks(ts, obj) ==
    [tasks_completed |-> Len(CompletedTasks(ts)),
     tasks_total |-> Len(ts),
     actions_executed |-> Len(obj.actions_executed),
     files_created |-> Len(obj.files_generated),
     files_generated |-> obj.files_generated,
     task_results |->
        [i \in 1..Len(ts) |->
            [number |-> i, description |-> ts[i].description,
             result |-> ts[i].result]]]

\* _aggregate_results: the parts of the report
_aggregate_results(ts, obj) ==
    [tasks_completed |-> Len(CompletedTasks(ts)),
     tasks_total |-> Len(ts),
     actions_executed |-> Len(obj.actions_executed),
     files_created |-> Len(obj.files_generated),
     files_generated |-> obj.files_generated,
     task_results |->
        [i \in 1..Len(CompletedTasks(ts)) |->
            [number |-> i, description |-> CompletedTasks(ts)[i].description,
             result |-> CompletedTasks(ts)[i].result]]]

----------------------------------------------------------------------------
(* Inputs of a run of execute_objective *)

\* task ids the planner may use; "ghost" is an id no task carries
TaskIds == {"task_1", "task_2"}

\* dependency lists of a task specification
DepLists == {<<>>, <<"task_1">>, <<"task_2">>, <<"task_1", "ghost">>}

\* commands of command tasks (none contains a pattern the planner rejects)
CmdLs     == <<"l", "s">>
CmdSudoLs == <<"s", "u", "d", "o", " ", "l", "s">>

\* metadata of the execution tasks of a plan
FileTokenMeta ==
    [NoMeta EXCEPT !.type = "file", !.file_path = <<"out.py">>,
                   !.content = Placeholder("task_1")]
FileMixedMeta ==
    [NoMeta EXCEPT !.type = "file", !.file_path = <<"sub", "/", "main.py">>,
                   !.content = <<"# header">> \o Placeholder("task_1")
                               \o <<"# middle">> \o Placeholder("task_1")]
CommandBlockedMeta ==
    [NoMeta EXCEPT !.type = "command", !.command = CmdSudoLs]

CommandOkMeta ==
    [NoMeta EXCEPT !.type = "command", !.command = CmdLs]

ExecutionMetas ==
    {FileTokenMeta, FileMixedMeta, CommandBlockedMeta, CommandOkMeta}

\* the task specifications the planner may return, after _create_tasks
TaskSpecs ==
    {Task(id, "code", deps, NoMeta) : id \in TaskIds, deps \in DepLists}
    \cup
    {Task(id, "execution", deps, m) :
        id \in TaskIds, deps \in DepLists, m \in ExecutionMetas}

\* the plans: every list of at most MaxTasks task specifications
Plans == UNION {[1..n -> TaskSpecs] : n \in 0..MaxTasks}

\* what a generative worker (code, research, analysis) may return
WorkerResults == {<<>>, <<"print('hi')">>}

\* str(e) of the exceptions a generative worker may raise
WorkerExceptions == {<<"LLM API error">>, <<"Connection timeout">>}

NoCall == [fn |-> "<none>"]
NoRet  == [fn |-> "<none>"]

EmptyMap == [x \in {} |-> <<>>]

\* _emit_progress (lines 39-47) with a progress_callback: one update of the
\* given type, with the task_id and task_number its metadata carries
Event(type, task_id, task_number) ==
    [type |-> type, task_id |-> task_id, task_number |-> task_number]

----------------------------------------------------------------------------
(* execute_objective as a state machine *)

Init ==
    /\ plan \in Plans
    /\ tasks = plan
    /\ idx = 1
    /\ pc = "loop"
    /\ context = EmptyMap
    /\ objective = [status |-> "in_progress", actions_executed |-> <<>>,
                    files_generated |-> <<>>, final_result |-> None]
    /\ fs = EmptyMap
    /\ spawned = <<>>
    /\ dispatched = <<>>
    /\ validated = <<>>
    /\ call = NoCall
    /\ ret = NoRet
    /\ events = <<Event("objective_start", None, 0),
                 Event("decomposing", None, 0),
                 Event("tasks_created", None, 0)>>

\* the loop waiting at the task at idx until its dependencies are met
SkipTask_waits ==
    /\ pc = "loop"
    /\ idx <= Len(tasks)
    /\ ~_check_dependencies(tasks[idx], tasks)
    /\ tasks' = [tasks EXCEPT ![idx].retry_count = @ + 1]
    /\ events' = events \o <<Event("task_start", tasks[idx].id, idx),
                           Event("task_skipped", None, 0)>>
    /\ UNCHANGED <<plan, idx, pc, context, objective, fs, spawned, dispatched,
                   validated, call, ret>>

\* lines 88-96: the dependencies of the task at idx are not met
SkipTask ==
    /\ pc = "loop"
    /\ idx <= Len(tasks)
    /\ ~_check_dependencies(tasks[idx], tasks)
    /\ tasks' = [tasks EXCEPT ![idx].status = "failed",
                              ![idx].error = <<"Dependencies not met">>]
    /\ idx' = idx + 1
    /\ events' = events \o <<Event("task_start", tasks[idx].id, idx),
                           Event("task_skipped", None, 0)>>
    /\ UNCHANGED <<plan, pc, context, objective, fs, spawned, dispatched,
                   validated, call, ret>>

\* _execute_task starting the task at idx and the task after it at once
BeginTask_two_at_once ==
    /\ pc = "loop"
    /\ idx <= Len(tasks)
    /\ _check_dependencies(tasks[idx], tasks)
    /\ tasks' = [n \in 1..Len(tasks) |->
                    IF n \in {idx, idx + 1}
                    THEN [tasks[n] EXCEPT !.status = "in_progress"]
                    ELSE tasks[n]]
    /\ pc' = "exec"
    /\ events' = events \o <<Event("task_start", tasks[idx].id, idx),
                           Event("executing", tasks[idx].id, 0)>>
    /\ UNCHANGED <<plan, idx, context, objective, fs, spawned, dispatched,
                   validated, call, ret>>

\* lines 99, 218-231: _execute_task up to the call of the agent
BeginTask ==
    /\ pc = "loop"
    /\ idx <= Len(tasks)
    /\ _check_dependencies(tasks[idx], tasks)
    /\ tasks' = [tasks EXCEPT
                    ![idx].status = "in_progress",
                    ![idx].metadata =
                        _replace_task_placeholders(tasks[idx], context)]
    /\ pc' = "exec"
    /\ events' = events \o <<Event("task_start", tasks[idx].id, idx),
                           Event("executing", tasks[idx].id, 0)>>
    /\ UNCHANGED <<plan, idx, context, objective, fs, spawned, dispatched,
                   validated, call, ret>>

\* the outcome of the executor appended twice to actions_executed
RunAction_records_twice ==
    /\ pc = "exec"
    /\ _get_agent_for_task(tasks[idx]) = "executor"
    /\ \E env \in EnvOutcomes(tasks[idx].metadata.type) :
          LET r == ExecutionAgent_execute(tasks[idx], env, fs, spawned) IN
          /\ r.result # Blocked
          /\ tasks' = [tasks EXCEPT ![idx].result = r.result,
                                    ![idx].action_result = r.action_result,
                                    ![idx].status = "completed"]
          /\ context' = ContextPut(context, tasks[idx].id, r.result)
          /\ objective' =
                [objective EXCEPT
                    !.actions_executed =
                        Append(Append(@, r.action_result), r.action_result),
                    !.files_generated = @ \o r.action_result.files_created]
          /\ fs' = r.fs
          /\ spawned' = r.spawned
    /\ dispatched' = Append(dispatched, [task |-> idx, agent |-> "executor",
                                         raised |-> None])
    /\ idx' = idx + 1
    /\ pc' = "loop"
    /\ events' = events \o <<Event(IF tasks'[idx].action_result.success
                                 THEN "action_complete"
                                 ELSE "action_failed", None, 0),
                           Event("task_complete", tasks[idx].id, 0)>>
    /\ UNCHANGED <<plan, validated, call, ret>>

\* lines 234-257 and 101-112 with the executor as the agent
RunAction ==
    /\ pc = "exec"
    /\ _get_agent_for_task(tasks[idx]) = "executor"
    /\ \E env \in EnvOutcomes(tasks[idx].metadata.type) :
          LET r == ExecutionAgent_execute(tasks[idx], env, fs, spawned) IN
          /\ r.result # Blocked
          /\ tasks' = [tasks EXCEPT ![idx].result = r.result,
                                    ![idx].action_result = r.action_result,
                                    ![idx].status = "completed"]
          /\ context' = ContextPut(context, tasks[idx].id, r.result)
          /\ objective' =
                [objective EXCEPT
                    !.actions_executed = Append(@, r.action_result),
                    !.files_generated = @ \o r.action_result.files_created]
          /\ fs' = r.fs
          /\ spawned' = r.spawned
    /\ dispatched' = Append(dispatched, [task |-> idx, agent |-> "executor",
                                         raised |-> None])
    /\ idx' = idx + 1
    /\ pc' = "loop"
    /\ events' = events \o <<Event(IF tasks'[idx].action_result.success
                                 THEN "action_complete"
                                 ELSE "action_failed", None, 0),
                           Event("task_complete", tasks[idx].id, 0)>>
    /\ UNCHANGED <<plan, validated, call, ret>>

\* line 234: execute of the executor never returns (the read loop of
\* _execute_command on a process that keeps its output open), and
\* execute_objective with it
RunActionBlocks ==
    /\ pc = "exec"
    /\ _get_agent_for_task(tasks[idx]) = "executor"
    /\ \E env \in EnvOutcomes(tasks[idx].metadata.type) :
          LET r == ExecutionAgent_execute(tasks[idx], env, fs, spawned) IN
          /\ r.result = Blocked
          /\ spawned' = r.spawned
    /\ dispatched' = Append(dispatched, [task |-> idx, agent |-> "executor",
                                         raised |-> Blocked])
    /\ pc' = "blocked"
    /\ UNCHANGED <<plan, tasks, idx, context, objective, fs, validated, call,
                   ret, events>>

\* lines 234, 259-268 and 113-118: execute of the executor raises (its
\* os.makedirs is outside its try)
RunActionRaises ==
    /\ pc = "exec"
    /\ _get_agent_for_task(tasks[idx]) = "executor"
    /\ tasks' = [tasks EXCEPT ![idx].status = "failed",
                              ![idx].error = <<"OSError">>]
    /\ dispatched' = Append(dispatched, [task |-> idx, agent |-> "executor",
                                         raised |-> <<"OSError">>])
    /\ idx' = idx + 1
    /\ pc' = "loop"
    /\ events' = events \o <<Event("task_error", tasks[idx].id, 0),
                           Event("task_failed", tasks[idx].id, 0)>>
    /\ UNCHANGED <<plan, context, objective, fs, spawned, validated, call,
                   ret>>

\* the result of the worker held for validation instead of completed
RunWorker_validating ==
    /\ pc = "exec"
    /\ _get_agent_for_task(tasks[idx]) # "executor"
    /\ \E result \in WorkerResults :
          /\ tasks' = [tasks EXCEPT ![idx].result = result,
                                    ![idx].status = "validating"]
          /\ context' = ContextPut(context, tasks[idx].id, result)
    /\ dispatched' = Append(dispatched,
                        [task |-> idx,
                         agent |-> _get_agent_for_task(tasks[idx]),
                         raised |-> None])
    /\ idx' = idx + 1
    /\ pc' = "loop"
    /\ events' = events \o <<Event("task_complete", tasks[idx].id, 0)>>
    /\ UNCHANGED <<plan, objective, fs, spawned, validated, call, ret>>

\* lines 234-257 and 101-112 with a generative worker that returns
RunWorker ==
    /\ pc = "exec"
    /\ _get_agent_for_task(tasks[idx]) # "executor"
    /\ \E result \in WorkerResults :
          /\ tasks' = [tasks EXCEPT ![idx].result = result,
                                    ![idx].status = "completed"]
          /\ context' = ContextPut(context, tasks[idx].id, result)
    /\ dispatched' = Append(dispatched,
                        [task |-> idx,
                         agent |-> _get_agent_for_task(tasks[idx]),
                         raised |-> None])
    /\ idx' = idx + 1
    /\ pc' = "loop"
    /\ events' = events \o <<Event("task_complete", tasks[idx].id, 0)>>
    /\ UNCHANGED <<plan, objective, fs, spawned, validated, call, ret>>

\* the call of the worker raises and the exception leaves execute_objective
RunWorkerRaises_escapes ==
    /\ pc = "exec"
    /\ _get_agent_for_task(tasks[idx]) # "executor"
    /\ \E e \in WorkerExceptions :
          dispatched' = Append(dispatched,
                            [task |-> idx,
                             agent |-> _get_agent_for_task(tasks[idx]),
                             raised |-> e])
    /\ pc' = "crashed"
    /\ events' = events \o <<Event("task_error", tasks[idx].id, 0)>>
    /\ UNCHANGED <<plan, tasks, idx, context, objective, fs, spawned,
                   validated, call, ret>>

\* lines 259-268 and 113-118: the call of the worker raises
RunWorkerRaises ==
    /\ pc = "exec"
    /\ _get_agent_for_task(tasks[idx]) # "executor"
    /\ \E e \in WorkerExceptions :
          /\ tasks' = [tasks EXCEPT ![idx].status = "failed",
                                    ![idx].error = e]
          /\ dispatched' = Append(dispatched,
                                [task |-> idx,
                                 agent |-> _get_agent_for_task(tasks[idx]),
                                 raised |-> e])
    /\ idx' = idx + 1
    /\ pc' = "loop"
    /\ events' = events \o <<Event("task_error", tasks[idx].id, 0),
                           Event("task_failed", tasks[idx].id, 0)>>
    /\ UNCHANGED <<plan, context, objective, fs, spawned, validated, call,
                   ret>>

\* a second pass before the finalisation that puts back to pending the
\* tasks whose dependencies have completed in the meantime
Finalize_second_pass ==
    /\ pc = "loop"
    /\ idx > Len(tasks)
    /\ tasks' = [n \in 1..Len(tasks) |->
                    IF /\ tasks[n].status = "failed"
                       /\ tasks[n].error = <<"Dependencies not met">>
                       /\ _check_dependencies(tasks[n], tasks)
                    THEN [tasks[n] EXCEPT !.status = "pending",
                                          !.error = None]
                    ELSE tasks[n]]
    /\ objective' = [objective EXCEPT
                        !.final_result = _aggregate_results(tasks, objective),
                        !.status = _determine_status(tasks)]
    /\ pc' = "done"
    /\ events' = events \o <<Event("objective_complete", None, 0)>>
    /\ UNCHANGED <<plan, idx, context, fs, spawned, dispatched,
                   validated, call, ret>>

\* lines 120-136: after the last task
Finalize ==
    /\ pc = "loop"
    /\ idx > Len(tasks)
    /\ objective' = [objective EXCEPT
                        !.final_result = _aggregate_results(tasks, objective),
                        !.status = _determine_status(tasks)]
    /\ pc' = "done"
    /\ events' = events \o <<Event("objective_complete", None, 0)>>
    /\ UNCHANGED <<plan, tasks, idx, context, fs, spawned, dispatched,
                   validated, call, ret>>

Next ==
    \/ SkipTask
    \/ BeginTask
    \/ RunAction
    \/ RunActionBlocks
    \/ RunActionRaises
    \/ RunWorker
    \/ RunWorkerRaises
    \/ Finalize

Spec == Init /\ [][Next]_vars

----------------------------------------------------------------------------
(* Inputs of direct calls of the action runner and of the safety checks *)

\* fragments of commands, written character by character
FragRmRf     == <<"r","m"," ","-","r","f">>
FragRmRfCaps == <<"R","M"," ","-","R","F">>
FragRmTabRf  == <<"r","m","\t"," ","-","r","f">>
FragMkfs     == <<"m","k","f","s">>
FragDdIf     == <<"d","d"," ","i","f","=">>
FragForkBomb == <<":","(",")","{"," ",":","|",":","&"," ","}",";",":">>
FragForkFlat == <<":","(",")","{",":",";",":","}">>
FragSudo     == <<"s","u","d","o">>
FragSudoCaps == <<"S","u","D","o">>
FragChmod    == <<"c","h","m","o","d"," ","7","7","7">>
FragChmodR   == <<"c","h","m","o","d"," ","-","R"," ","7","7","7">>
FragShutdown == <<"s","h","u","t","d","o","w","n">>
FragReboot   == <<"r","e","b","o","o","t">>
FragShred    == <<"s","h","r","e","d">>
FragEcho     == <<"e","c","h","o">>

CommandFragments ==
    {FragRmRf, FragRmRfCaps, FragRmTabRf, FragMkfs, FragDdIf, FragForkBomb,
     FragForkFlat, FragSudo, FragSudoCaps, FragChmod, FragChmodR,
     FragShutdown, FragReboot, FragShred, FragEcho, CmdLs}

CommandPrefixes == {<<>>, <<"c","d"," ","x",";"," ">>}
CommandSuffixes == {<<>>, <<" ","/">>, <<" ","x","\n","l","s">>}

\* the command strings handed to _validate_command
Commands ==
    {pre \o frag \o suf :
        pre \in CommandPrefixes, frag \in CommandFragments,
        suf \in CommandSuffixes}

\* the path strings handed to the file-write action and to _is_safe_path
RelPaths ==
    {<<"out.py">>,
     <<"sub", "/", "main.py">>,
     <<"sub", "/", "..", "/", "out.py">>,
     <<".">>,
     <<"..", "/", "workspace", "/", "out.py">>,
     <<"..", "/", "x">>,
     <<"sub", "/", "..", "/", "..", "/", "x">>,
     <<"/", "etc", "/", "passwd">>,
     <<"/", "cwd", "/", "workspace", "/", "out.py">>,
     <<"..", "/", "workspace", "_x", "/", "f">>,
     <<"/", "cwd", "/", "workspace", "_x">>}

FileContents == {<<>>, <<"print('hi')">>}

\* the metadata of the task handed to ExecutionAgent.execute
AgentMetas ==
    {[NoMeta EXCEPT !.type = "command", !.command = c] :
        c \in Commands \cup {Absent, <<>>}}
    \cup
    {[NoMeta EXCEPT !.type = "file", !.file_path = p, !.content = c] :
        p \in RelPaths \cup {Absent, <<>>},
        c \in FileContents \cup {Absent}}
    \cup
    {[NoMeta EXCEPT !.type = "http", !.url = u] :
        u \in {Absent, <<"http://host/">>}}
    \cup
    {[NoMeta EXCEPT !.type = "server", !.action = a, !.start_command = c] :
        a \in {Absent, <<"start">>, <<"stop">>},
        c \in {Absent, CmdLs, CmdSudoLs}}
    \cup
    {NoMeta, [NoMeta EXCEPT !.type = "noop"], [NoMeta EXCEPT !.type = "bogus"]}

----------------------------------------------------------------------------
(* A direct call executor.execute(task, context={}) *)

InitAgent ==
    /\ plan \in {<<Task("t", "execution", <<>>, m)>> : m \in AgentMetas}
    /\ tasks = plan
    /\ idx = 1
    /\ pc = "agent"
    /\ context = EmptyMap
    /\ objective = [status |-> "pending", actions_executed |-> <<>>,
                    files_generated |-> <<>>, final_result |-> None]
    /\ fs = EmptyMap
    /\ spawned = <<>>
    /\ dispatched = <<>>
    /\ validated = <<>>
    /\ call = NoCall
    /\ ret = NoRet
    /\ events = <<>>

\* ExecutionAgent.execute, lines 59-150
ExecuteCall ==
    /\ pc = "agent"
    /\ \E env \in EnvOutcomes(tasks[1].metadata.type) :
          LET r == ExecutionAgent_execute(tasks[1], env, fs, spawned) IN
          /\ r.result # Blocked
          /\ tasks' = [tasks EXCEPT ![1].result = r.result,
                                    ![1].action_result = r.action_result]
          /\ fs' = r.fs
          /\ spawned' = r.spawned
    /\ pc' = "returned"
    /\ UNCHANGED <<plan, idx, context, objective, dispatched, validated,
                   call, ret, events>>

\* ExecutionAgent.execute, line 61: os.makedirs raises and execute with it
ExecuteRaises ==
    /\ pc = "agent"
    /\ pc' = "raised"
    /\ UNCHANGED <<plan, tasks, idx, context, objective, fs, spawned,
                   dispatched, validated, call, ret, events>>

\* ExecutionAgent.execute, lines 80 and 225-227: the call never returns
ExecuteBlocks ==
    /\ pc = "agent"
    /\ \E env \in EnvOutcomes(tasks[1].metadata.type) :
          LET r == ExecutionAgent_execute(tasks[1], env, fs, spawned) IN
          /\ r.result = Blocked
          /\ spawned' = r.spawned
    /\ pc' = "blocked"
    /\ UNCHANGED <<plan, tasks, idx, context, objective, fs, dispatched,
                   validated, call, ret, events>>

NextAgent == ExecuteCall \/ ExecuteRaises \/ ExecuteBlocks

SpecAgent == InitAgent /\ [][NextAgent]_vars

----------------------------------------------------------------------------
(* Direct calls of the safety checks *)

InitSafety ==
    /\ call \in {[fn |-> "_validate_command", arg |-> c] : c \in Commands}
                \cup {[fn |-> "_is_safe_path", arg |-> p] : p \in RelPaths}
    /\ ret = NoRet
    /\ events = <<>>
    /\ pc = "call"
    /\ plan = <<>>
    /\ tasks = <<>>
    /\ idx = 1
    /\ context = EmptyMap
    /\ objective = [status |-> "pending", actions_executed |-> <<>>,
                    files_generated |-> <<>>, final_result |-> None]
    /\ fs = EmptyMap
    /\ spawned = <<>>
    /\ dispatched = <<>>
    /\ validated = <<>>

\* ExecutionAgent._validate_command(command)
ValidateCommandCall ==
    /\ pc = "call"
    /\ call.fn = "_validate_command"
    /\ ret' = [fn |-> call.fn,
               is_safe |-> _validate_command(call.arg).is_safe,
               reason |-> _validate_command(call.arg).reason]
    /\ pc' = "return"
    /\ UNCHANGED <<plan, tasks, idx, context, objective, fs, spawned,
                   dispatched, validated, call, events>>

\* FileManager._is_safe_path(filepath)
IsSafePathCall ==
    /\ pc = "call"
    /\ call.fn = "_is_safe_path"
    /\ ret' = [fn |-> call.fn,
               is_safe |-> _is_safe_path(call.arg).is_safe,
               reason |-> _is_safe_path(call.arg).reason]
    /\ pc' = "return"
    /\ UNCHANGED <<plan, tasks, idx, context, objective, fs, spawned,
                   dispatched, validated, call, events>>

NextSafety == ValidateCommandCall \/ IsSafePathCall

SpecSafety == InitSafety /\ [][NextSafety]_vars

----------------------------------------------------------------------------
(* ValidationAgent: src/agents/validation_agent.py *)

\* self.validation_threshold = 6.0
validation_threshold == 6

\* the first position of the symbol sym in s (Len(s) + 1 when absent)
RECURSIVE IndexFrom(_, _, _)
IndexFrom(s, sym, i) ==
    IF i > Len(s) \/ s[i] = sym THEN i ELSE IndexFrom(s, sym, i + 1)

IndexOf(s, sym) == IndexFrom(s, sym, 1)

\* the value between the keys k1 and k2 of a JSON text
Between(s, k1, k2) == SubSeq(s, IndexOf(s, k1) + 1, IndexOf(s, k2) - 1)

\* the text is a JSON object as json.dumps writes the result dicts
IsJsonObject(s) ==
    /\ Len(s) >= 17
    /\ s[1] = "{"
    /\ s[2] = "\"success\":"
    /\ s[4] = "\"type\":"
    /\ s[6] = "\"exit_code\":"
    /\ s[8] = "\"pid\":"
    /\ s[10] = "\"status_code\":"
    /\ s[12] = "\"error\":"
    /\ IndexOf(s, "\"error\":") < IndexOf(s, "\"command\":")
    /\ IndexOf(s, "\"command\":") < IndexOf(s, "\"stdout\":")
    /\ IndexOf(s, "\"stdout\":") < IndexOf(s, "\"file_path\":")
    /\ IndexOf(s, "\"file_path\":") < IndexOf(s, "\"body\":")
    /\ IndexOf(s, "\"body\":") < Len(s)
    /\ s[Len(s)] = "}"

\* json.loads(result) of a JSON object
Loads(s) ==
    [success |-> s[3], type |-> s[5], exit_code |-> s[7], pid |-> s[9],
     status_code |-> s[11],
     error |-> Between(s, "\"error\":", "\"command\":"),
     command |-> Between(s, "\"command\":", "\"stdout\":"),
     stdout |-> Between(s, "\"stdout\":", "\"file_path\":"),
     file_path |-> Between(s, "\"file_path\":", "\"body\":"),
     body |-> SubSeq(s, IndexOf(s, "\"body\":") + 1, Len(s) - 1)]

\* Path("workspace") / file_path exists
FileExists(f, file_path) ==
    PathStr(Resolve(PathJoin(Cwd \o <<<<"workspace">>>>, file_path)))
        \in DOMAIN f

\* a JSON value that is no object, written character by character: null,
\* true, false, a number of one digit, a string, or an array of one such
\* value or of none
IsJsonScalar(s) ==
    \/ s \in {<<"n","u","l","l">>, <<"t","r","u","e">>,
               <<"f","a","l","s","e">>}
    \/ Len(s) = 1 /\ s[1] \in {"0", "1", "7"}
    \/ /\ Len(s) >= 2
       /\ s[1] = "\"" /\ s[Len(s)] = "\""
       /\ \A n \in 2..(Len(s) - 1) : s[n] # "\""

IsJsonArray(s) ==
    /\ Len(s) >= 2
    /\ s[1] = "[" /\ s[Len(s)] = "]"
    /\ Len(s) = 2 \/ IsJsonScalar(SubSeq(s, 2, Len(s) - 1))

\* what json.loads(result) does: returns a dict ("object"), returns another
\* value ("value"), raises TypeError because result is None ("type_error"),
\* raises JSONDecodeError ("decode_error")
JsonKind(s) ==
    CASE s = None -> "type_error"
      [] s # None /\ IsJsonObject(s) -> "object"
      [] s # None /\ ~IsJsonObject(s) /\ (IsJsonScalar(s) \/ IsJsonArray(s))
            -> "value"
      [] OTHER -> "decode_error"

\* the failure keywords of the textual fallback
FailureWords ==
    {<<"e","r","r","o","r">>, <<"f","a","i","l","e","d">>,
     <<"e","x","c","e","p","t","i","o","n">>}

\* any(word in result.lower() for word in [...]) with no keyword at all
ContainsFailureWord_never(result) == FALSE

\* any(word in result.lower() for word in ["error", "failed", "exception"])
ContainsFailureWord(result) ==
    \E word \in FailureWords : Contains(StrLower(result), word)

\* _validate_execution_result without the check of the process exit code
_validate_execution_result_no_exit_code(task, result, f) ==
    IF JsonKind(result) = "decode_error"
    THEN IF ContainsFailureWord(result)
         THEN [ok |-> FALSE, feedback |-> <<"Execution appears to have failed">>]
         ELSE [ok |-> TRUE, feedback |-> <<"Execution result accepted">>]
    ELSE IF JsonKind(result) \in {"value", "type_error"}
    THEN [ok |-> TRUE, feedback |-> <<"Execution validation skipped">>]
    ELSE LET exec_result == Loads(result) IN
         IF exec_result.success # "true"
         THEN [ok |-> FALSE,
               feedback |-> <<"Execution failed: ">>
                            \o (IF exec_result.error = Absent
                                THEN <<"Unknown error">>
                                ELSE exec_result.error)]
         ELSE IF /\ exec_result.type = "file"
                 /\ Truthy(exec_result.file_path)
                 /\ ~FileExists(f, exec_result.file_path)
         THEN [ok |-> FALSE,
               feedback |-> <<"File was not created: ">>
                            \o exec_result.file_path]
         ELSE IF exec_result.type = "server" /\ exec_result.pid = "<absent>"
         THEN [ok |-> FALSE, feedback |-> <<"Server failed to start">>]
         ELSE [ok |-> TRUE, feedback |-> <<"Execution successful">>]

\* _validate_execution_result: (ok, feedback)
_validate_execution_result(task, result, f) ==
    IF JsonKind(result) = "decode_error"
    THEN IF ContainsFailureWord(result)
         THEN [ok |-> FALSE, feedback |-> <<"Execution appears to have failed">>]
         ELSE [ok |-> TRUE, feedback |-> <<"Execution result accepted">>]
    ELSE IF JsonKind(result) \in {"value", "type_error"}
    THEN [ok |-> TRUE, feedback |-> <<"Execution validation skipped">>]
    ELSE LET exec_result == Loads(result) IN
         IF exec_result.success # "true"
         THEN [ok |-> FALSE,
               feedback |-> <<"Execution failed: ">>
                            \o (IF exec_result.error = Absent
                                THEN <<"Unknown error">>
                                ELSE exec_result.error)]
         ELSE IF /\ exec_result.type = "file"
                 /\ Truthy(exec_result.file_path)
                 /\ ~FileExists(f, exec_result.file_path)
         THEN [ok |-> FALSE,
               feedback |-> <<"File was not created: ">>
                            \o exec_result.file_path]
         ELSE IF exec_result.type = "command" /\ exec_result.exit_code # "0"
         THEN [ok |-> FALSE,
               feedback |-> <<"Command failed with exit code ",
                              exec_result.exit_code>>]
         ELSE IF exec_result.type = "server" /\ exec_result.pid = "<absent>"
         THEN [ok |-> FALSE, feedback |-> <<"Server failed to start">>]
         ELSE [ok |-> TRUE, feedback |-> <<"Execution successful">>]

\* what the semantic judge may do: the call of the LLM raises, or it answers
\* with a JSON text that is malformed or carries is_valid, score, feedback
JudgeAnswers ==
    {[raises |-> FALSE, malformed |-> FALSE, is_valid |-> v, score |-> sc,
      feedback |-> fb] :
        v \in BOOLEAN, sc \in {0, 5, 6, 7, 10, 11},
        fb \in {<<"looks complete">>, <<"output is incomplete">>}}
    \cup {[raises |-> r, malformed |-> ~r, is_valid |-> FALSE, score |-> 0,
           feedback |-> <<>>] : r \in BOOLEAN}

\* _parse_validation_response raises: json.loads on a malformed answer, or
\* ValidationResult on a score outside Field(ge=0, le=10)
ParseRaises(judge) == judge.malformed \/ judge.score \notin 0..10

\* _validate_quality with `>` in place of `>=`
_validate_quality_above_threshold(judge) ==
    IF judge.raises \/ ParseRaises(judge)
    THEN [ok |-> TRUE,
          feedback |-> <<"Quality validation skipped due to error">>]
    ELSE [ok |-> judge.is_valid /\ judge.score > validation_threshold,
          feedback |-> judge.feedback]

\* _validate_quality: (ok, feedback)
_validate_quality(judge) ==
    IF judge.raises \/ ParseRaises(judge)
    THEN [ok |-> TRUE,
          feedback |-> <<"Quality validation skipped due to error">>]
    ELSE [ok |-> judge.is_valid /\ judge.score >= validation_threshold,
          feedback |-> judge.feedback]

\* ValidationAgent.validate: (accepted, feedback)
validate(task, result, judge, f) ==
    IF /\ task.agent_type = "execution"
       /\ ~_validate_execution_result(task, result, f).ok
    THEN [accepted |-> FALSE,
          feedback |-> _validate_execution_result(task, result, f).feedback,
          judge_called |-> FALSE]
    ELSE IF ~_validate_quality(judge).ok
    THEN [accepted |-> FALSE, feedback |-> _validate_quality(judge).feedback,
          judge_called |-> TRUE]
    ELSE [accepted |-> TRUE, feedback |-> <<"Validation passed">>,
          judge_called |-> TRUE]

----------------------------------------------------------------------------
(* Properties *)

\* the loop called agent.execute for the task at position n
Dispatched(n) == \E k \in 1..Len(dispatched) : dispatched[k].task = n

\* the number of attempts of the task at position n
Attempts(n) ==
    Cardinality({k \in 1..Len(dispatched) : dispatched[k].task = n})

\* the validation gate rejects the result of the task at position n whatever
\* the semantic judge answers
GateRejects(n) ==
    \A judge \in JudgeAnswers :
        ~validate(tasks[n], tasks[n].result, judge, fs).accepted

(* C1: a task is in status completed only if ValidationAgent.validate was  *)
(* called on the result of that attempt and accepted it.                   *)
C1_CompletedOnlyAfterValidation ==
    \A n \in 1..Len(tasks) :
        tasks[n].status = "completed" =>
            \E v \in 1..Len(validated) :
                /\ validated[v].task = n
                /\ validated[v].result = tasks[n].result
                /\ validated[v].accepted

(* C2: when the run has ended, a task whose attempts were all rejected by  *)
(* the validation gate (MAX_RETRIES rejections) is failed with the         *)
(* rejection feedback as its error; a completed task was accepted on its   *)
(* last attempt and its retry_count is the number of rejected attempts     *)
(* before it.                                                              *)
C2_RetryBudget ==
    pc = "done" =>
        \A n \in 1..Len(tasks) :
            Dispatched(n) =>
                /\ GateRejects(n) =>
                      /\ tasks[n].status = "failed"
                      /\ tasks[n].error # None
                /\ tasks[n].status = "completed" =>
                      /\ ~GateRejects(n)
                      /\ tasks[n].retry_count = Attempts(n) - 1

(* C3: when execute_objective returns, a task whose attached ActionResult  *)
(* has success = false is failed with a non-empty error, and the objective *)
(* is not completed.                                                       *)
C3_FailedActionFailsTask ==
    pc = "done" =>
        \A n \in 1..Len(tasks) :
            (tasks[n].action_result # NoAction
                /\ ~tasks[n].action_result.success) =>
                /\ tasks[n].status = "failed"
                /\ Truthy(tasks[n].error)
                /\ objective.status # "completed"

\* the position of the task a dependency id resolves to (the first task in
\* plan order carrying the id), 0 for an unknown id
ResolveDep(dep_id) ==
    IF \E j \in 1..Len(tasks) : tasks[j].id = dep_id
    THEN Min({j \in 1..Len(tasks) : tasks[j].id = dep_id})
    ELSE 0

\* every dependency of the task at position n resolved, at the turn of n, to
\* a completed task: only a task whose turn is over can be completed then
EligibleAtTurn(n) ==
    \A d \in 1..Len(tasks[n].dependencies) :
        LET j == ResolveDep(tasks[n].dependencies[d]) IN
        /\ j # 0
        /\ j < n
        /\ tasks[j].status = "completed"

(* C4: a task whose turn in the plan-ordered loop is over was dispatched   *)
(* to a capability iff it has no dependencies or each of its dependency    *)
(* ids resolved to an existing, completed task; otherwise it was never     *)
(* dispatched, its retry count is 0 and it is failed with the error        *)
(* "Dependencies not met".                                                 *)
C4_DependencyGate ==
    \A n \in 1..Len(tasks) :
        n < idx =>
            /\ Dispatched(n) <=> EligibleAtTurn(n)
            /\ ~EligibleAtTurn(n) =>
                  /\ tasks[n].status = "failed"
                  /\ tasks[n].error = <<"Dependencies not met">>
                  /\ tasks[n].retry_count = 0
                  /\ tasks[n].result = None

\* a task with one completed and one unknown dependency was skipped
C4_Witness ==
    /\ pc = "done"
    /\ \E n \in 1..Len(tasks) :
          /\ tasks[n].dependencies = <<"task_1", "ghost">>
          /\ ResolveDep("task_1") # 0
          /\ tasks[ResolveDep("task_1")].status = "completed"
          /\ tasks[n].status = "failed"
          /\ ~Dispatched(n)

\* the number of tasks that ended completed
CompletedCount ==
    Cardinality({n \in 1..Len(tasks) : tasks[n].status = "completed"})

(* C5 as stated: for every task list, the empty one included, the final    *)
(* status is completed iff every task ended completed, partial iff some    *)
(* but not all did, failed iff none did.                                   *)
C5_StatusIff ==
    pc = "done" =>
        /\ objective.status = "completed" <=> CompletedCount = Len(tasks)
        /\ objective.status = "partial" <=>
              (CompletedCount > 0 /\ CompletedCount < Len(tasks))
        /\ objective.status = "failed" <=> CompletedCount = 0

(* C5 amended: the final status is completed iff every task ended          *)
(* completed (so also for the empty list), partial iff some but not all    *)
(* did, failed iff the list is not empty and no task ended completed.      *)
C5_StatusIffNonEmpty ==
    pc = "done" =>
        /\ objective.status = "completed" <=> CompletedCount = Len(tasks)
        /\ objective.status = "partial" <=>
              (CompletedCount > 0 /\ CompletedCount < Len(tasks))
        /\ objective.status = "failed" <=>
              (Len(tasks) > 0 /\ CompletedCount = 0)

\* a run of a two-task plan that ended with one task completed
C5_Witness ==
    /\ pc = "done"
    /\ Len(tasks) = 2
    /\ CompletedCount = 1
    /\ objective.status = "partial"

(* C6: when a task B is dispatched, for each declared dependency A whose   *)
(* token WILL_BE_REPLACED_WITH_<A_UPPER>_OUTPUT occurs in the content the  *)
(* planner gave B, no occurrence of the token remains in B's content, and  *)
(* (B having the one dependency A) the content is the planner's content    *)
(* with every occurrence of the token replaced by the result of A.         *)
C6_TokenReplaced ==
    pc = "exec" =>
        LET before == plan[idx].metadata.content
            after  == tasks[idx].metadata.content
        IN  \A d \in 1..Len(tasks[idx].dependencies) :
                LET A == tasks[idx].dependencies[d] IN
                Contains(before, Placeholder(A)) =>
                    /\ ~Contains(after, Placeholder(A))
                    /\ Len(tasks[idx].dependencies) = 1 =>
                          after = StrReplace(before, Placeholder(A),
                                             ContextGet(context, A))

\* the plan of the end-to-end scenario
C7Plan ==
    <<Task("task_1", "code", <<>>, NoMeta),
      Task("task_2", "execution", <<"task_1">>, FileTokenMeta)>>

(* C7: for the plan [task_1 (code), task_2 (file-write of the token of     *)
(* task_1, depending on task_1)], when task_1 returned R and the write met *)
(* no I/O error, the run ends with the file holding exactly R, both tasks  *)
(* completed, the objective completed and files_generated = [path].        *)
C7_EndToEnd ==
    (/\ pc = "done"
     /\ plan = C7Plan
     /\ tasks[1].status = "completed"
     /\ tasks[2].action_result # NoAction
     /\ tasks[2].action_result.error # <<"OSError">>) =>
        /\ PathStr(TargetPath(<<"out.py">>)) \in DOMAIN fs
        /\ fs[PathStr(TargetPath(<<"out.py">>))] = tasks[1].result
        /\ tasks[2].status = "completed"
        /\ objective.status = "completed"
        /\ objective.files_generated = <<<<"out.py">>>>

\* the task at position n went through ExecutionAgent.execute
ActionAttached(n) == tasks[n].action_result # NoAction

(* C8: for every process-command action whose command the command safety   *)
(* check rejects, the outcome has success = false, its error names a       *)
(* denylist pattern that matches the command, and the command was not      *)
(* handed to subprocess.Popen.                                             *)
C8_BlockedCommandNotSpawned ==
    \A n \in 1..Len(tasks) :
        (/\ ActionAttached(n)
         /\ tasks[n].metadata.type = "command"
         /\ Truthy(tasks[n].metadata.command)
         /\ ~_validate_command(tasks[n].metadata.command).is_safe) =>
            /\ ~tasks[n].action_result.success
            /\ \E k \in MatchingPatterns(tasks[n].metadata.command) :
                  tasks[n].action_result.error =
                      <<"Dangerous pattern detected: ",
                        DANGEROUS_PATTERNS[k].src>>
            /\ \A k \in 1..Len(spawned) :
                  spawned[k].command # tasks[n].metadata.command

\* the action runner returned for the command "cd x; RM -RF /"
C8_Witness ==
    /\ pc = "returned"
    /\ tasks[1].metadata.type = "command"
    /\ Contains(tasks[1].metadata.command, FragRmRfCaps)
    /\ ActionAttached(1)
    /\ ~tasks[1].action_result.success
    /\ spawned = <<>>

\* one fragment of each denylisted class of the safety policy, in lower
\* case: recursive force-delete, disk format, raw-device write, fork bomb,
\* privilege elevation, global permission change, shutdown, reboot
DenylistedFragments ==
    {FragRmRf, FragMkfs, FragDdIf, FragForkBomb, FragSudo, FragChmod,
     FragShutdown, FragReboot}

(* C9: _validate_command returns is_safe = false for every command that    *)
(* contains, in any letter case and with any surrounding text, a fragment  *)
(* of a denylisted class.                                                  *)
C9_DenylistedRejected ==
    (/\ pc = "return"
     /\ call.fn = "_validate_command"
     /\ \E frag \in DenylistedFragments :
            Contains(StrLower(call.arg), frag)) =>
        ~ret.is_safe

\* the resolved path is the workspace directory or lies below it
InsideWorkspace(target) ==
    /\ Len(target) >= Len(WORKSPACE_DIR)
    /\ SubSeq(target, 1, Len(WORKSPACE_DIR)) = WORKSPACE_DIR

(* C10: a file-write action whose path resolves to neither the workspace   *)
(* directory nor a descendant of it is rejected by the path check and      *)
(* writes nothing.                                                         *)
C10_OutsidePathRejected ==
    \A n \in 1..Len(tasks) :
        (/\ ActionAttached(n)
         /\ tasks[n].metadata.type = "file"
         /\ Truthy(tasks[n].metadata.file_path)
         /\ ~InsideWorkspace(TargetPath(tasks[n].metadata.file_path))) =>
            /\ ~tasks[n].action_result.success
            /\ tasks[n].action_result.error =
                  <<"File write outside workspace blocked">>
            /\ PathStr(TargetPath(tasks[n].metadata.file_path))
                  \notin DOMAIN fs

\* the direct call of execute returned for a file-write action whose path
\* is present and resolves to the workspace directory or below it
FileWriteInSandbox ==
    /\ pc = "returned"
    /\ tasks[1].metadata.type = "file"
    /\ Truthy(tasks[1].metadata.file_path)
    /\ InsideWorkspace(TargetPath(tasks[1].metadata.file_path))

\* the content write_text is given: metadata.get("content", "")
ContentOf(metadata) ==
    IF metadata.content = Absent THEN <<>> ELSE metadata.content

\* the outcome of a successful file write: the file holds the content and
\* files_created is the one-element list of the path as given
FileWritten ==
    /\ tasks[1].action_result.success
    /\ PathStr(TargetPath(tasks[1].metadata.file_path)) \in DOMAIN fs
    /\ fs[PathStr(TargetPath(tasks[1].metadata.file_path))] =
          ContentOf(tasks[1].metadata)
    /\ tasks[1].action_result.files_created =
          <<tasks[1].metadata.file_path>>

\* every failed file-write has an empty files_created
FailedWriteCreatesNothing ==
    \A n \in 1..Len(tasks) :
        (/\ ActionAttached(n)
         /\ tasks[n].metadata.type = "file"
         /\ ~tasks[n].action_result.success) =>
            tasks[n].action_result.files_created = <<>>

(* C11: a file-write action with a present, in-sandbox path and any        *)
(* content ends with success = true, a file at that path holding exactly   *)
(* the content and files_created = [path]; every failed file-write has an  *)
(* empty files_created.                                                    *)
C11_FileWrite ==
    /\ FileWriteInSandbox => FileWritten
    /\ FailedWriteCreatesNothing

(* C11 (amended): the same, for a write that raised no I/O error (the path *)
(* does not name a directory, the file system accepts the write).          *)
C11_FileWriteNoIOError ==
    /\ (FileWriteInSandbox /\ tasks[1].action_result.error # <<"OSError">>)
          => FileWritten
    /\ FailedWriteCreatesNothing

\* the file sub/main.py was written with a non-empty content
C11_Witness ==
    /\ FileWriteInSandbox
    /\ tasks[1].metadata.file_path = <<"sub", "/", "main.py">>
    /\ tasks[1].metadata.content = <<"print('hi')">>
    /\ FileWritten

(* C12: for every action kind and every parameter set, execute returns a   *)
(* result and attaches one ActionResult to the task without raising, and   *)
(* every failed outcome carries a non-empty error message.                 *)
C12_ExecuteTotal ==
    /\ pc # "raised"
    /\ pc = "returned" =>
          /\ tasks[1].result # None
          /\ ActionAttached(1)
          /\ ~tasks[1].action_result.success =>
                /\ tasks[1].action_result.error # None
                /\ tasks[1].action_result.error # <<>>

\* the status the loop or _determine_status may leave
FinalTaskStatuses == {"completed", "failed"}

\* execute_objective is in its for loop: before a turn (or before the
\* finalisation) or inside _execute_task of the task at idx
InLoop ==
    \/ pc = "loop" /\ idx \in 1..(Len(tasks) + 1)
    \/ pc = "exec" /\ idx \in 1..Len(tasks)

(* C13: when a capability raised while executing task i, the exception did *)
(* not leave execute_objective: task i is failed with the exception text   *)
(* as its error, the run is in its loop until its end, and at the end      *)
(* every later task had its turn (dispatched when its dependencies were    *)
(* met) and the objective has a final status.                              *)
C13_ExceptionContained ==
    \A k \in 1..Len(dispatched) :
        dispatched[k].raised \notin {None, Blocked} =>
            LET i == dispatched[k].task IN
            /\ tasks[i].status = "failed"
            /\ tasks[i].error = dispatched[k].raised
            /\ pc \notin {"done", "blocked"} => InLoop
            /\ pc = "done" =>
                  /\ \A m \in (i + 1)..Len(tasks) :
                        /\ tasks[m].status \in FinalTaskStatuses
                        /\ EligibleAtTurn(m) => Dispatched(m)
                  /\ objective.status \in {"completed", "partial", "failed"}

\* the worker of the first of two tasks raised, the second was dispatched
\* and the run ended
C13_Witness ==
    /\ pc = "done"
    /\ Len(tasks) = 2
    /\ \E k \in 1..Len(dispatched) :
          dispatched[k].task = 1 /\ dispatched[k].raised \notin {None, Blocked}
    /\ Dispatched(2)
    /\ tasks[2].status = "completed"
    /\ objective.status = "partial"

\* the error messages of the action runner for a safety rejection (Blocked)
\* and for a missing required field (InvalidParams)
IsBlockedError(error) ==
    \/ error = <<"File write outside workspace blocked">>
    \/ \E k \in 1..Len(DANGEROUS_PATTERNS) :
          error = <<"Dangerous pattern detected: ", DANGEROUS_PATTERNS[k].src>>

IsInvalidParamsError(error) ==
    error \in {<<"No executable command provided (natural language blocked)">>,
               <<"file_path missing for file execution">>,
               <<"URL missing for HTTP execution">>,
               <<"start_command missing for server start">>}

(* C14: a task whose action failed with Blocked or InvalidParams is never  *)
(* retried: once its turn is over the action runner was invoked exactly    *)
(* once for it and the task is failed.                                     *)
C14_BlockedNeverRetried ==
    \A n \in 1..Len(tasks) :
        (/\ n < idx
         /\ ActionAttached(n)
         /\ ~tasks[n].action_result.success
         /\ \/ IsBlockedError(tasks[n].action_result.error)
            \/ IsInvalidParamsError(tasks[n].action_result.error)) =>
            /\ Attempts(n) = 1
            /\ tasks[n].status = "failed"

----------------------------------------------------------------------------
(* BaseAgent: src/agents/base_agent.py *)

\* f"{task_id}_feedback"
FeedbackKey(task_id) ==
    CASE task_id = "task_1" -> "task_1_feedback"
      [] task_id = "task_2" -> "task_2_feedback"
      [] task_id = "task_3" -> "task_3_feedback"
      [] task_id = "t"      -> "t_feedback"
      [] OTHER              -> "<id>_feedback"

\* _build_feedback_string: "" when the context is empty or has no entry
\* under the feedback key of the task
_build_feedback_string(ctx, task_id) ==
    IF DOMAIN ctx = {} THEN <<>>
    ELSE IF FeedbackKey(task_id) \in DOMAIN ctx
    THEN <<"Feedback from previous attempt:">>
         \o ctx[FeedbackKey(task_id)]
         \o <<"Please address this feedback in your response.">>
    ELSE <<>>

----------------------------------------------------------------------------

\* the feedback of the validation gate on the result of the task at
\* position n, with the judge answering `judge`
GateFeedback(n, judge) ==
    validate(tasks[n], tasks[n].result, judge, fs).feedback

(* C15: on the first attempt of a task its worker finds no feedback entry  *)
(* for the task; after an attempt that the validation gate rejects (the    *)
(* retry budget MAX_RETRIES not being used up by one rejection), the       *)
(* feedback of the rejection is stored under the key <id>_feedback and the *)
(* feedback lookup of the worker for that task id finds it.                *)
C15_FeedbackOnRetry ==
    /\ (pc = "exec" /\ Attempts(idx) = 0) =>
          _build_feedback_string(context, tasks[idx].id) = <<>>
    /\ \A n \in 1..Len(tasks) :
          (n < idx /\ Attempts(n) >= 1 /\ tasks[n].result # None
                   /\ GateRejects(n)) =>
              /\ FeedbackKey(tasks[n].id) \in DOMAIN context
              /\ \E judge \in JudgeAnswers :
                    context[FeedbackKey(tasks[n].id)] = GateFeedback(n, judge)
              /\ _build_feedback_string(context, tasks[n].id) # <<>>

----------------------------------------------------------------------------
(* _create_tasks and _get_agent_for_task called on planner specs *)

\* the values of the enum AgentType (config/models.py)
AgentTypeValues ==
    {"coordinator", "research", "analysis", "code", "validation",
     "integration", "execution"}

\* spec.get("agent_type", "execution") followed by AgentType(...) with its
\* ValueError handler
AgentTypeOf(agent_type_str) ==
    IF agent_type_str = "<absent>" THEN "execution"
    ELSE IF agent_type_str \in AgentTypeValues THEN agent_type_str
    ELSE "execution"

\* _create_tasks: one Task per spec, in order
_create_tasks(specs) ==
    [n \in 1..Len(specs) |->
        [Task(specs[n].id, AgentTypeOf(specs[n].agent_type),
              specs[n].dependencies, specs[n].metadata)
            EXCEPT !.description = specs[n].description]]

\* the capability tags a planner spec may carry: the enum values, no tag,
\* and strings that are no enum value
PlannerTags == AgentTypeValues \cup {"<absent>", "bogus", "Execution "}

PlannerSpecs ==
    {[id |-> "task_1", description |-> <<"write the code">>,
      agent_type |-> t, dependencies |-> <<>>, metadata |-> NoMeta] :
        t \in PlannerTags}

InitDispatch ==
    /\ call \in {[fn |-> "_create_tasks", arg |-> specs] :
                    specs \in UNION {[1..n -> PlannerSpecs] :
                                        n \in 1..MaxTasks}}
    /\ ret = NoRet
    /\ events = <<>>
    /\ pc = "call"
    /\ plan = <<>>
    /\ tasks = <<>>
    /\ idx = 1
    /\ context = EmptyMap
    /\ objective = [status |-> "pending", actions_executed |-> <<>>,
                    files_generated |-> <<>>, final_result |-> None]
    /\ fs = EmptyMap
    /\ spawned = <<>>
    /\ dispatched = <<>>
    /\ validated = <<>>

\* tasks = self._create_tasks(task_specs)
CreateTasksCall ==
    /\ pc = "call"
    /\ tasks' = _create_tasks(call.arg)
    /\ plan' = tasks'
    /\ pc' = "dispatch"
    /\ UNCHANGED <<idx, context, objective, fs, spawned, dispatched,
                   validated, call, ret, events>>

\* agent = self._get_agent_for_task(task) for the task at idx
GetAgentCall ==
    /\ pc = "dispatch"
    /\ idx <= Len(tasks)
    /\ ret' = [fn |-> "_get_agent_for_task", task |-> idx,
               agent |-> _get_agent_for_task(tasks[idx])]
    /\ idx' = idx + 1
    /\ UNCHANGED <<plan, tasks, pc, context, objective, fs, spawned,
                   dispatched, validated, call, events>>

NextDispatch == CreateTasksCall \/ GetAgentCall

SpecDispatch == InitDispatch /\ [][NextDispatch]_vars

----------------------------------------------------------------------------

\* the capabilities the orchestrator constructs
Capabilities ==
    {"coordinator", "executor", "code_agent", "research_agent",
     "analysis_agent", "validation_agent"}

\* the tags with an entry in agents_map
MappedTags ==
    {"execution", "code", "research", "analysis", "validation",
     "coordinator"}

(* C16: worker dispatch is total: for every capability tag of a planner    *)
(* spec (an enum value with or without mapping entry, no tag, a string     *)
(* that is no enum value) a task is created and dispatch returns one of    *)
(* the capabilities, and every tag that is unrecognized or has no mapping  *)
(* entry resolves to the action capability.                                *)
C16_DispatchTotal ==
    /\ pc = "dispatch" => Len(tasks) = Len(call.arg)
    /\ (pc = "dispatch" /\ ret.fn = "_get_agent_for_task") =>
          /\ ret.agent \in Capabilities
          /\ call.arg[ret.task].agent_type \notin MappedTags =>
                ret.agent = "executor"

\* dispatch returned the executor for the tag "integration", which is an
\* enum value without mapping entry, after a task with an unknown tag
C16_Witness ==
    /\ pc = "dispatch"
    /\ ret.fn = "_get_agent_for_task"
    /\ ret.task = 2
    /\ call.arg[1].agent_type = "bogus"
    /\ call.arg[2].agent_type = "integration"
    /\ ret.agent = "executor"

----------------------------------------------------------------------------
(* A direct call validator.validate(task, result, objective) *)

\* outcome records: those ExecutionAgent.execute writes, and records whose
\* success flag disagrees with their exit code, pid or file
OutcomeRecords ==
    {[EmptyDict EXCEPT !.success = "true", !.type = "noop"],
     [EmptyDict EXCEPT !.success = "true", !.type = "file",
                       !.file_path = <<"out.py">>],
     [EmptyDict EXCEPT !.success = "true", !.type = "file",
                       !.file_path = <<"..", "/", "workspace", "_x", "/", "f">>],
     [EmptyDict EXCEPT !.success = "true", !.type = "file"],
     _error(<<"OSError">>, "file", None),
     [EmptyDict EXCEPT !.success = "true", !.type = "command",
                       !.command = CmdLs, !.exit_code = "0",
                       !.stdout = <<"out">>],
     [EmptyDict EXCEPT !.success = "true", !.type = "command",
                       !.command = CmdLs, !.exit_code = "1",
                       !.stdout = <<"out">>],
     [EmptyDict EXCEPT !.success = "false", !.type = "command",
                       !.command = CmdLs, !.exit_code = "1",
                       !.stdout = <<"out">>],
     _error(<<"Command timeout">>, "command", CmdLs),
     [EmptyDict EXCEPT !.success = "true", !.type = "server",
                       !.pid = "4242"],
     [EmptyDict EXCEPT !.success = "true", !.type = "server"],
     _error(<<"Unsupported server action">>, "server", None),
     [EmptyDict EXCEPT !.success = "true", !.type = "http",
                       !.status_code = "200", !.body = <<"body">>],
     [EmptyDict EXCEPT !.success = "false", !.type = "http",
                       !.status_code = "404", !.body = <<"body">>]}

\* results that are no JSON object: no result, texts without and with a
\* failure keyword, JSON values that are not objects
PlainResults ==
    {None,
     <<>>,
     <<"d","o","n","e">>,
     <<"E","r","r","o","r"," ","i","n"," ","s","t","e","p">>,
     <<"t","a","s","k"," ","F","A","I","L","E","D">>,
     <<"n","o"," ","e","x","c","e","p","t","i","o","n","s">>,
     <<"n","u","l","l">>,
     <<"7">>,
     <<"[","]">>,
     <<"\"","e","r","r","o","r","\"">>,
     <<"[","\"","f","a","i","l","e","d","\"","]">>}

ValidateResults == {Dumps(d) : d \in OutcomeRecords} \cup PlainResults

\* the files when validate runs: none, out.py in the workspace, or the file
\* ../workspace_x/f next to it
ValidateFileSystems ==
    {EmptyMap,
     WriteText(EmptyMap, PathStr(TargetPath(<<"out.py">>)), <<>>),
     WriteText(EmptyMap,
               PathStr(TargetPath(<<"..", "/", "workspace", "_x", "/", "f">>)),
               <<>>)}

InitValidate ==
    /\ call \in {[fn |-> "validate", task |-> Task("t", a, <<>>, NoMeta),
                  result |-> r, judge |-> j] :
                    a \in {"execution", "code"}, r \in ValidateResults,
                    j \in JudgeAnswers}
    /\ fs \in ValidateFileSystems
    /\ ret = NoRet
    /\ events = <<>>
    /\ pc = "call"
    /\ plan = <<>>
    /\ tasks = <<>>
    /\ idx = 1
    /\ context = EmptyMap
    /\ objective = [status |-> "pending", actions_executed |-> <<>>,
                    files_generated |-> <<>>, final_result |-> None]
    /\ spawned = <<>>
    /\ dispatched = <<>>
    /\ validated = <<>>

\* ValidationAgent.validate, lines 32-58
ValidateCall ==
    /\ pc = "call"
    /\ call.fn = "validate"
    /\ LET v == validate(call.task, call.result, call.judge, fs) IN
       ret' = [fn |-> "validate", accepted |-> v.accepted,
               feedback |-> v.feedback, judge_called |-> v.judge_called]
    /\ pc' = "return"
    /\ UNCHANGED <<plan, tasks, idx, context, objective, fs, spawned,
                   dispatched, validated, call, events>>

NextValidate == ValidateCall

SpecValidate == InitValidate /\ [][NextValidate]_vars

----------------------------------------------------------------------------

\* validate returned and the structural check did not reject: the task is
\* no action task, or the check passed and the judge was consulted
StructuralPassed ==
    /\ pc = "return"
    /\ ret.fn = "validate"
    /\ ret.judge_called

\* the judge call raised, or the parsing of its answer did (malformed text,
\* score outside 0..10)
JudgeRaised ==
    \/ call.judge.raises
    \/ call.judge.malformed
    \/ call.judge.score < 0 \/ call.judge.score > 10

(* C17: for a result that passed the structural check, validate accepts    *)
(* iff the validity flag of the judge is true and its score is at least 6, *)
(* and otherwise rejects with the feedback of the judge; if the judge call *)
(* or the parsing of its answer raises, validate accepts.                  *)
C17_QualityGate ==
    StructuralPassed =>
        IF JudgeRaised
        THEN ret.accepted
        ELSE /\ ret.accepted <=>
                    (call.judge.is_valid /\ call.judge.score >= 6)
             /\ ~ret.accepted => ret.feedback = call.judge.feedback

\* accepted on the threshold itself: an action task whose file exists, a
\* judge that answers valid with score 6
C17_Witness ==
    /\ StructuralPassed
    /\ call.task.agent_type = "execution"
    /\ JsonKind(call.result) = "object"
    /\ ~JudgeRaised
    /\ call.judge.is_valid
    /\ call.judge.score = 6
    /\ ret.accepted

\* validate returned for an action task whose result parses as an outcome
\* record
ValidatedOutcomeRecord ==
    /\ pc = "return"
    /\ call.fn = "validate"
    /\ call.task.agent_type = "execution"
    /\ JsonKind(call.result) = "object"

\* one of the four structural faults of an outcome record
StructuralFault(r) ==
    \/ r.success # "true"
    \/ /\ r.type = "file"
       /\ Truthy(r.file_path)
       /\ PathStr(TargetPath(r.file_path)) \notin DOMAIN fs
    \/ r.type = "command" /\ r.exit_code # "0"
    \/ r.type = "server" /\ r.pid = "<absent>"

ValidatedActionTask ==
    /\ pc = "return"
    /\ call.fn = "validate"
    /\ call.task.agent_type = "execution"

\* the lower-cased text of the result contains error, failed or exception
HasFailureKeyword(result) ==
    \E word \in FailureWords : Contains(StrLower(result), word)

(* C19: validate returns for every produced result; for an action task, a  *)
(* result that is not valid JSON is structurally rejected iff its text     *)
(* contains a failure keyword (error, failed, exception), and a result on  *)
(* which the structural check meets another exception (no result, JSON     *)
(* that is not an object) is structurally accepted.                        *)
C19_LenientFallback ==
    /\ (pc = "return" /\ call.fn = "validate") => ret.accepted \in BOOLEAN
    /\ ValidatedActionTask =>
          /\ JsonKind(call.result) = "decode_error" =>
                /\ ret.judge_called <=> ~HasFailureKeyword(call.result)
                /\ ~ret.judge_called =>
                      /\ ~ret.accepted
                      /\ ret.feedback = <<"Execution appears to have failed">>
          /\ JsonKind(call.result) \in {"value", "type_error"} =>
                ret.judge_called

\* the text "task FAILED" was rejected by the textual fallback
C19_Witness ==
    /\ ValidatedActionTask
    /\ call.result = <<"t","a","s","k"," ","F","A","I","L","E","D">>
    /\ ~ret.accepted
    /\ ~ret.judge_called

----------------------------------------------------------------------------
(* CoordinatorAgent: src/agents/coordinator_agent.py *)

\* the patterns of the planner's own check of command tasks
DANGEROUS_SHELL_PATTERNS ==
    <<<<"r","m"," ","-","r","f"," ","/">>,
      FragMkfs,
      FragDdIf,
      FragForkBomb,
      FragChmod,
      FragShutdown,
      FragReboot>>

\* task["agent_type"].lower() on the tags of the model
LowerTag(tag) ==
    CASE tag = "CODE"      -> "code"
      [] tag = "Execution" -> "execution"
      [] OTHER             -> tag

\* a plan entry of the planner's JSON text
PlanEntry(id, description, agent_type, dependencies, metadata) ==
    [id |-> id, description |-> description, agent_type |-> agent_type,
     dependencies |-> dependencies, metadata |-> metadata]

\* required.issubset(task.keys())
HasRequiredFields(entry) ==
    /\ entry.id # "<absent>"
    /\ entry.description # Absent
    /\ entry.agent_type # "<absent>"

\* the safety check of an execution entry of type command
IsDangerousEntry(entry) ==
    /\ LowerTag(entry.agent_type) = "execution"
    /\ entry.metadata.type = "command"
    /\ \E k \in 1..Len(DANGEROUS_SHELL_PATTERNS) :
          Contains(IF entry.metadata.command = Absent THEN <<>>
                   ELSE entry.metadata.command,
                   DANGEROUS_SHELL_PATTERNS[k])

\* _parse_task_response accepting entries without the required fields
_parse_task_response_unchecked(response) ==
    IF response.kind # "list"
    THEN [raises |-> TRUE, tasks |-> <<>>]
    ELSE IF \E n \in 1..Len(response.entries) :
               IsDangerousEntry(response.entries[n])
    THEN [raises |-> TRUE, tasks |-> <<>>]
    ELSE [raises |-> FALSE,
          tasks |-> [n \in 1..Len(response.entries) |->
                        [response.entries[n] EXCEPT
                            !.agent_type = LowerTag(@)]]]

\* _parse_task_response: raises, or returns the entries with their tags in
\* lower case
_parse_task_response(response) ==
    IF response.kind # "list"
    THEN [raises |-> TRUE, tasks |-> <<>>]
    ELSE IF \E n \in 1..Len(response.entries) :
               \/ ~HasRequiredFields(response.entries[n])
               \/ IsDangerousEntry(response.entries[n])
    THEN [raises |-> TRUE, tasks |-> <<>>]
    ELSE [raises |-> FALSE,
          tasks |-> [n \in 1..Len(response.entries) |->
                        [response.entries[n] EXCEPT
                            !.agent_type = LowerTag(@)]]]

\* the objective text
ObjectiveText == <<"build a todo app">>

\* metadata of a fallback file-write entry
FallbackFileMeta(file_path, dep_id) ==
    [NoMeta EXCEPT !.type = "file", !.file_path = file_path,
                   !.content = Placeholder(dep_id)]

\* _create_fallback_task
_create_fallback_task(objective_text) ==
    <<PlanEntry("task_1", <<"Generate models.py for: ">> \o objective_text,
                "code", <<>>, NoMeta),
      PlanEntry("task_2", <<"Create models.py file">>, "execution",
                <<"task_1">>, FallbackFileMeta(<<"models.py">>, "task_1")),
      PlanEntry("task_3", <<"Generate main.py for: ">> \o objective_text,
                "code", <<>>, NoMeta),
      PlanEntry("task_4", <<"Create main.py file">>, "execution",
                <<"task_3">>, FallbackFileMeta(<<"main.py">>, "task_3")),
      PlanEntry("task_5", <<"Generate requirements.txt with dependencies">>,
                "code", <<>>, NoMeta),
      PlanEntry("task_6", <<"Create requirements.txt file">>, "execution",
                <<"task_5">>,
                FallbackFileMeta(<<"requirements.txt">>, "task_5")),
      PlanEntry("task_7", <<"Generate README.md documentation">>, "code",
                <<>>, NoMeta),
      PlanEntry("task_8", <<"Create README.md file">>, "execution",
                <<"task_7">>, FallbackFileMeta(<<"README.md">>, "task_7"))>>

\* decompose_objective: the parsed plan, or the fallback plan when the call
\* of the LLM or the parsing raises
decompose_objective(objective_text, response) ==
    IF response.kind = "llm_error" \/ _parse_task_response(response).raises
    THEN _create_fallback_task(objective_text)
    ELSE _parse_task_response(response).tasks

\* entries the planner may write: with and without each required field, tags
\* in either case and a tag with no agent of its own (its tasks go to the
\* executor), a command the planner's check lets through and one it blocks
PlannerEntries ==
    {PlanEntry(id, d, a, <<>>, NoMeta) :
        id \in {"task_1", "<absent>"},
        d \in {<<"write the code">>, Absent},
        a \in {"code", "CODE", "<absent>"}}
    \cup
    {PlanEntry("task_2", <<"run it">>, a, <<"task_1">>,
               [NoMeta EXCEPT !.type = "command", !.command = c]) :
        a \in {"execution", "Execution", "integration"},
        c \in {CmdLs, FragShutdown \o <<" ","n","o","w">>}}

\* what the LLM call of the planner yields: an exception, a text that is no
\* JSON, a JSON value that is no list, or a list of entries
PlannerResponses ==
    {[kind |-> k, entries |-> <<>>] :
        k \in {"llm_error", "not_json", "not_list"}}
    \cup
    {[kind |-> "list", entries |-> es] :
        es \in UNION {[1..n -> PlannerEntries] : n \in 0..MaxTasks}}

InitPlanner ==
    /\ call \in {[fn |-> "decompose_objective", arg |-> r] :
                    r \in PlannerResponses}
    /\ ret = NoRet
    /\ events = <<>>
    /\ pc = "call"
    /\ plan = <<>>
    /\ tasks = <<>>
    /\ idx = 1
    /\ context = EmptyMap
    /\ objective = [status |-> "pending", actions_executed |-> <<>>,
                    files_generated |-> <<>>, final_result |-> None]
    /\ fs = EmptyMap
    /\ spawned = <<>>
    /\ dispatched = <<>>
    /\ validated = <<>>

\* task_specs = self.coordinator.decompose_objective(objective_description)
DecomposeCall ==
    /\ pc = "call"
    /\ call.fn = "decompose_objective"
    /\ ret' = [fn |-> "decompose_objective",
               specs |-> decompose_objective(ObjectiveText, call.arg)]
    /\ pc' = "return"
    /\ UNCHANGED <<plan, tasks, idx, context, objective, fs, spawned,
                   dispatched, validated, call, events>>

NextPlanner == DecomposeCall

SpecPlanner == InitPlanner /\ [][NextPlanner]_vars

----------------------------------------------------------------------------

\* the output of the planner is malformed: not parseable, not a list, or an
\* entry without id, description or capability tag
Malformed(response) ==
    \/ response.kind \in {"not_json", "not_list"}
    \/ /\ response.kind = "list"
       /\ \E n \in 1..Len(response.entries) :
             \/ response.entries[n].id = "<absent>"
             \/ response.entries[n].description = Absent
             \/ response.entries[n].agent_type = "<absent>"

\* decompose_objective returned for a malformed output of the planner
ReturnedForMalformed ==
    /\ pc = "return"
    /\ call.fn = "decompose_objective"
    /\ Malformed(call.arg)

\* the entry at position n + 1 writes to a file what the entry at n generates
GenerateThenWrite(specs, n) ==
    /\ specs[n].agent_type = "code"
    /\ specs[n].dependencies = <<>>
    /\ specs[n + 1].agent_type = "execution"
    /\ specs[n + 1].metadata.type = "file"
    /\ Truthy(specs[n + 1].metadata.file_path)
    /\ specs[n + 1].dependencies = <<specs[n].id>>
    /\ specs[n + 1].metadata.content = Placeholder(specs[n].id)

(* C20: whenever the output of the planner is malformed, decompose_objective *)
(* returns the fixed fallback plan, which consists of exactly two tasks: a  *)
(* generate task followed by a file-write task that depends on it.          *)
C20_FallbackTwoTasks ==
    ReturnedForMalformed =>
        /\ Len(ret.specs) = 2
        /\ GenerateThenWrite(ret.specs, 1)

(* C20 (amended): whenever the output of the planner is malformed,          *)
(* decompose_objective returns the fixed fallback plan, which consists of   *)
(* exactly eight tasks: four generate tasks (models.py, main.py,            *)
(* requirements.txt, README.md), each followed by the file-write task that  *)
(* depends on it.                                                           *)
C20_FallbackEightTasks ==
    ReturnedForMalformed =>
        /\ Len(ret.specs) = 8
        /\ \A k \in 1..4 : GenerateThenWrite(ret.specs, 2 * k - 1)
        /\ \A n \in 1..8 : ret.specs[n].id = <<"task_1", "task_2", "task_3",
                                              "task_4", "task_5", "task_6",
                                              "task_7", "task_8">>[n]
        /\ <<ret.specs[2].metadata.file_path, ret.specs[4].metadata.file_path,
             ret.specs[6].metadata.file_path, ret.specs[8].metadata.file_path>>
              = <<<<"models.py">>, <<"main.py">>, <<"requirements.txt">>,
                  <<"README.md">>>>

\* the fallback plan was returned for a list whose second entry has no
\* description
C20_Witness ==
    /\ ReturnedForMalformed
    /\ call.arg.kind = "list"
    /\ Len(call.arg.entries) = 2
    /\ HasRequiredFields(call.arg.entries[1])
    /\ call.arg.entries[2].description = Absent
    /\ call.arg.entries[2].id # "<absent>"
    /\ Len(ret.specs) = 8

RECURSIVE PositionsWhere(_, _)
\* the positions n <= upto of the plan whose task has status completed, in
\* increasing order
PositionsWhere(ts, upto) ==
    IF upto = 0 THEN <<>>
    ELSE IF ts[upto].status = "completed"
    THEN Append(PositionsWhere(ts, upto - 1), upto)
    ELSE PositionsWhere(ts, upto - 1)

(* C21: at the end of the run the task-results section of the report has   *)
(* one entry, with description and result, for each task whose final       *)
(* status is completed, in plan order, and no entry for a task that ended  *)
(* failed.                                                                 *)
C21_ReportEntries ==
    pc = "done" =>
        LET entries == objective.final_result.task_results
            positions == PositionsWhere(tasks, Len(tasks))
        IN  /\ Len(entries) = Len(positions)
            /\ \A k \in 1..Len(entries) :
                  /\ entries[k].description = tasks[positions[k]].description
                  /\ entries[k].result = tasks[positions[k]].result
            /\ Len(entries) =
                  Cardinality({n \in 1..Len(tasks) :
                                  tasks[n].status # "failed"})

\* a run of two tasks ended with the first failed and the second completed:
\* the report has the one entry of the second
C21_Witness ==
    /\ pc = "done"
    /\ Len(tasks) = 2
    /\ tasks[1].status = "failed"
    /\ tasks[2].status = "completed"
    /\ tasks[1].description # tasks[2].description
    /\ Len(objective.final_result.task_results) = 1
    /\ objective.final_result.task_results[1].description
          = tasks[2].description

\* the statuses at the end of a task's turn
IsOver(n) == tasks[n].status \in {"completed", "failed"}

(* C22: within one run tasks are attempted strictly in plan order and at   *)
(* most one task is in_progress in any reachable state: a task has left    *)
(* pending only if every task before it is completed or failed.            *)
C22_Sequential ==
    /\ Cardinality({n \in 1..Len(tasks) :
                       tasks[n].status = "in_progress"}) <= 1
    /\ \A n \in 1..Len(tasks) :
          tasks[n].status # "pending" =>
              \A m \in 1..(n - 1) : IsOver(m)
    /\ \A k \in 1..Len(dispatched) :
          \A j \in 1..(k - 1) : dispatched[j].task < dispatched[k].task

\* the second task is in progress after the first was dispatched and is over
C22_Witness ==
    /\ pc = "exec"
    /\ idx = 2
    /\ tasks[2].status = "in_progress"
    /\ tasks[1].status = "completed"
    /\ Dispatched(1)

\* the positions the dependencies of the task at position n resolve to
DepPositions(n) ==
    {ResolveDep(tasks[n].dependencies[d]) :
        d \in 1..Len(tasks[n].dependencies)} \ {0}

RECURSIVE ReachFrom(_, _)
\* the positions reached from the set S in at most k dependency steps
ReachFrom(S, k) ==
    IF k = 0 THEN S
    ELSE ReachFrom(S \cup UNION {DepPositions(m) : m \in S}, k - 1)

\* the task at position n depends on itself, directly or transitively
OnCycle(n) == n \in ReachFrom(DepPositions(n), Len(tasks))

\* the number of steps execute_objective has left at most
Remaining ==
    CASE pc = "loop" -> 2 * (Len(tasks) + 1 - idx) + 1
      [] pc = "exec" -> 2 * (Len(tasks) + 1 - idx)
      [] OTHER       -> 0

\* each task has one turn, a task on a cycle whose turn is over is failed
\* and was not dispatched, and the end leaves no task pending or in_progress
CyclesFailOnce ==
    /\ pc \in {"done", "blocked"} \/ InLoop
    /\ \A n \in 1..Len(tasks) :
          /\ Attempts(n) <= 1
          /\ (n > idx \/ (n = idx /\ pc # "blocked")) => Attempts(n) = 0
          /\ (n < idx /\ OnCycle(n)) =>
                /\ tasks[n].status = "failed"
                /\ tasks[n].error = <<"Dependencies not met">>
                /\ ~Dispatched(n)
          /\ pc = "done" => IsOver(n)
    /\ pc = "done" => idx = Len(tasks) + 1

(* C23: for every finite plan, also with a self-loop or a longer cycle in  *)
(* its dependencies, execute_objective terminates (every step of the loop  *)
(* lowers the bounded number of steps left), gives each task one turn, and *)
(* leaves every task on a cycle failed, with no task pending or            *)
(* in_progress at the end.                                                 *)
C23_CyclesTerminate ==
    /\ []CyclesFailOnce
    /\ [][Remaining' < Remaining]_vars

\* a run ended on a plan whose two tasks depend on each other
C23_Witness ==
    /\ pc = "done"
    /\ Len(tasks) = 2
    /\ tasks[1].id = "task_1" /\ tasks[1].dependencies = <<"task_2">>
    /\ tasks[2].id = "task_2" /\ tasks[2].dependencies = <<"task_1">>
    /\ OnCycle(1) /\ OnCycle(2)
    /\ tasks[1].status = "failed" /\ tasks[2].status = "failed"

\* the status changes of a task the orchestrator makes: lines 219, 255,
\* 261 and 90 of orchestrator.py
StatusChanges ==
    {<<"pending", "in_progress">>, <<"in_progress", "completed">>,
     <<"in_progress", "failed">>, <<"pending", "failed">>}

\* the status values of TaskStatus that no code path assigns
UnusedStatuses == {"validating", "retrying"}

(* C24: every status change of a task is pending to in_progress,            *)
(* in_progress to completed, in_progress to failed, or pending to failed    *)
(* when its dependencies are not met (the code has no retry step back to    *)
(* pending); completed and failed are never changed afterwards, and no task *)
(* is ever in status validating or retrying.                                *)
C24_StatusTransitions ==
    /\ [](\A n \in 1..Len(tasks) : tasks[n].status \notin UnusedStatuses)
    /\ [][/\ Len(tasks') = Len(tasks)
          /\ \A n \in 1..Len(tasks) :
                /\ tasks'[n].status # tasks[n].status =>
                      <<tasks[n].status, tasks'[n].status>> \in StatusChanges
                /\ (tasks[n].status = "pending"
                      /\ tasks'[n].status = "failed") =>
                      tasks'[n].error = <<"Dependencies not met">>
                /\ IsOver(n) => tasks'[n].status = tasks[n].status]_vars

\* a run in which one task failed in execution and the next for its
\* dependencies
C24_Witness ==
    /\ pc = "done"
    /\ Len(tasks) = 2
    /\ tasks[1].status = "failed" /\ Dispatched(1)
    /\ tasks[2].status = "failed" /\ ~Dispatched(2)
    /\ tasks[2].error = <<"Dependencies not met">>

\* the number of times execute_objective wrote the key into the context
\* (line 102, once for every call of _execute_task that returned True)
ContextWrites(key) ==
    Cardinality({k \in 1..Len(dispatched) :
                    /\ dispatched[k].raised = None
                    /\ tasks[dispatched[k].task].id = key})

(* C25: the keys of the running output map are exactly the ids of the      *)
(* tasks that have ended completed, each key was written at most once      *)
(* (also when two tasks of the plan carry the same id), and the value      *)
(* stored under the id of a completed task is that task's result.          *)
C25_ContextWriteOnce ==
    /\ DOMAIN context =
          {tasks[n].id : n \in {m \in 1..Len(tasks) :
                                   tasks[m].status = "completed"}}
    /\ \A key \in DOMAIN context : ContextWrites(key) <= 1
    /\ \A n \in 1..Len(tasks) :
          tasks[n].status = "completed" => context[tasks[n].id] = tasks[n].result

\* the keys of the map are the ids of the completed tasks and the value of
\* a key is the result of the last completed task carrying it
C25_KeysOfCompleted ==
    /\ DOMAIN context =
          {tasks[n].id : n \in {m \in 1..Len(tasks) :
                                   tasks[m].status = "completed"}}
    /\ \A n \in 1..Len(tasks) :
          (/\ tasks[n].status = "completed"
           /\ \A m \in (n + 1)..Len(tasks) :
                 ~(tasks[m].id = tasks[n].id /\ tasks[m].status = "completed"))
          => context[tasks[n].id] = tasks[n].result

\* the direct call ran a process command: the command passed the checks and
\* Popen started its process
CommandSpawned ==
    /\ tasks[1].metadata.type = "command"
    /\ spawned # <<>>

\* the process the direct call started was not collected by wait()
ProcessOutstanding == \E k \in 1..Len(spawned) : spawned[k].state = "running"

(* C26: a process-command action always returns an outcome within its      *)
(* timeout: the call never blocks, and when the spawned process has not    *)
(* exited (a process that keeps its output open, silent or writing         *)
(* forever, included) the action has returned a failure with the timeout   *)
(* error.                                                                  *)
C26_CommandReturns ==
    /\ pc # "blocked"
    /\ (CommandSpawned /\ ProcessOutstanding) =>
          /\ pc = "returned"
          /\ ~tasks[1].action_result.success
          /\ tasks[1].action_result.error = <<"Command timeout">>

\* when the action returned and its process had not exited, the outcome is
\* the timeout failure
C26_TimeoutWhenReturned ==
    (pc = "returned" /\ CommandSpawned /\ ProcessOutstanding) =>
          /\ ~tasks[1].action_result.success
          /\ tasks[1].action_result.error = <<"Command timeout">>

(* C27: after a process-command action returned a Timeout failure, the     *)
(* process it started has been terminated and collected: none is running.  *)
C27_TimeoutCollected ==
    (/\ pc = "returned"
     /\ CommandSpawned
     /\ tasks[1].action_result.error = <<"Command timeout">>) =>
          ~ProcessOutstanding

\* a command action that returned without the timeout failure left no
\* process behind
C27_ExitCollected ==
    (/\ pc = "returned"
     /\ CommandSpawned
     /\ tasks[1].action_result.error # <<"Command timeout">>) =>
          ~ProcessOutstanding

----------------------------------------------------------------------------
(* FileManager: src/tools/file_manager.py, and repeated file writes *)

\* a content larger than max_file_size (settings.MAX_FILE_SIZE_MB = 10)
HugeContent == <<"<content of 11 MB>">>

\* self.workspace_dir / filepath, resolved: the file the write reaches
FullPath(filename) ==
    Resolve(PathJoin(Cwd \o Components(<<".", "/", "workspace">>), filename))

\* str(full_path), the path as FileManager reports it
FullPathStr(filename) ==
    IF IsAbsolute(filename) THEN filename
    ELSE IF filename = <<".">> THEN <<"workspace">>
    ELSE <<"workspace", "/">> \o filename

\* full_path.exists(): a file written before, or the workspace directory
PathExists(f, filename) ==
    \/ PathStr(FullPath(filename)) \in DOMAIN f
    \/ FullPath(filename) = WORKSPACE_DIR

\* FileManager.write_file replacing an existing file whatever `overwrite`
FileManager_write_file_always_overwrite(filename, content, overwrite, env, f) ==
    IF ~_is_safe_path(filename).is_safe
    THEN [result |-> ActionResult("file_write", FALSE, None,
                         <<"Unsafe path: ">> \o _is_safe_path(filename).reason,
                         <<>>),
          fs |-> f]
    ELSE IF content = HugeContent
    THEN [result |-> ActionResult("file_write", FALSE, None,
                         <<"Content too large (max 10MB)">>, <<>>),
          fs |-> f]
    ELSE IF env = "io_error" \/ FullPath(filename) = WORKSPACE_DIR
    THEN [result |-> ActionResult("file_write", FALSE, None, <<"OSError">>,
                         <<>>),
          fs |-> f]
    ELSE [result |-> ActionResult("file_write", TRUE,
                         <<"File written: ">> \o FullPathStr(filename), None,
                         <<FullPathStr(filename)>>),
          fs |-> WriteText(f, PathStr(FullPath(filename)), content)]

\* FileManager.write_file(filename, content, overwrite): the ActionResult
\* and the file system
FileManager_write_file(filename, content, overwrite, env, f) ==
    IF ~_is_safe_path(filename).is_safe
    THEN [result |-> ActionResult("file_write", FALSE, None,
                         <<"Unsafe path: ">> \o _is_safe_path(filename).reason,
                         <<>>),
          fs |-> f]
    ELSE IF PathExists(f, filename) /\ ~overwrite
    THEN [result |-> ActionResult("file_write", FALSE, None,
                         <<"File exists: ">> \o filename
                             \o <<" (use overwrite=True)">>,
                         <<>>),
          fs |-> f]
    ELSE IF content = HugeContent
    THEN [result |-> ActionResult("file_write", FALSE, None,
                         <<"Content too large (max 10MB)">>, <<>>),
          fs |-> f]
    ELSE IF env = "io_error" \/ FullPath(filename) = WORKSPACE_DIR
    THEN [result |-> ActionResult("file_write", FALSE, None, <<"OSError">>,
                         <<>>),
          fs |-> f]
    ELSE [result |-> ActionResult("file_write", TRUE,
                         <<"File written: ">> \o FullPathStr(filename), None,
                         <<FullPathStr(filename)>>),
          fs |-> WriteText(f, PathStr(FullPath(filename)), content)]

\* what the file system holds at the path of a directory
Directory == <<"<directory>">>

\* FileManager.create_directory(dirname): mkdir(parents=True, exist_ok=True)
\* of workspace_dir / dirname, with no call of _is_safe_path; it fails when
\* a file stands at the path
FileManager_create_directory(dirname, env, f) ==
    LET key == PathStr(FullPath(dirname)) IN
    IF env = "io_error" \/ (key \in DOMAIN f /\ f[key] # Directory)
    THEN [result |-> ActionResult("file_write", FALSE, None, <<"OSError">>,
                         <<>>),
          fs |-> f]
    ELSE [result |-> ActionResult("file_write", TRUE,
                         <<"Directory created: ">> \o FullPathStr(dirname),
                         None, <<>>),
          fs |-> WriteText(f, key, Directory)]

\* the paths and contents of the writes
WritePaths ==
    {<<"out.py">>,
     <<"sub", "/", "..", "/", "out.py">>,
     <<".">>,
     <<"..", "/", "escape.py">>,
     <<"..", "/", "workspace", "_x", "/", "f">>}

\* the names of the directories to create
DirNames == {<<"pkg">>, <<"..", "/", "escape">>}

WriteContents == {<<"print('hi')">>, <<"v2">>, HugeContent}

\* a workspace on which the action runner and a FileManager write files,
\* one write after the other
InitFiles ==
    /\ plan = <<>>
    /\ tasks = <<>>
    /\ idx = 1
    /\ pc = "files"
    /\ context = EmptyMap
    /\ objective = [status |-> "pending", actions_executed |-> <<>>,
                    files_generated |-> <<>>, final_result |-> None]
    /\ fs = EmptyMap
    /\ spawned = <<>>
    /\ dispatched = <<>>
    /\ validated = <<>>
    /\ call = NoCall
    /\ ret = NoRet
    /\ events = <<>>

\* ExecutionAgent._execute_file_write(task), lines 156-190
RunnerWrite ==
    /\ pc = "files"
    /\ \E p \in WritePaths, c \in WriteContents, env \in EnvOutcomes("file") :
          LET r == _execute_file_write(
                       [NoMeta EXCEPT !.type = "file", !.file_path = p,
                                      !.content = c], env, fs) IN
          /\ call' = [fn |-> "_execute_file_write", filename |-> p,
                      content |-> c, overwrite |-> TRUE, before |-> fs]
          /\ ret' = [fn |-> "_execute_file_write",
                     success |-> DictSuccess(r.dict),
                     error |-> DictGet(r.dict.error)]
          /\ fs' = r.fs
    /\ UNCHANGED <<plan, tasks, idx, pc, context, objective, spawned,
                   dispatched, validated, events>>

\* FileManager.write_file(filename, content, overwrite)
ManagerWrite ==
    /\ pc = "files"
    /\ \E p \in WritePaths, c \in WriteContents, o \in BOOLEAN,
          env \in EnvOutcomes("file") :
          LET r == FileManager_write_file(p, c, o, env, fs) IN
          /\ call' = [fn |-> "write_file", filename |-> p, content |-> c,
                      overwrite |-> o, before |-> fs]
          /\ ret' = [fn |-> "write_file", success |-> r.result.success,
                     error |-> r.result.error]
          /\ fs' = r.fs
    /\ UNCHANGED <<plan, tasks, idx, pc, context, objective, spawned,
                   dispatched, validated, events>>

\* FileManager.create_directory(dirname)
ManagerMkdir ==
    /\ pc = "files"
    /\ \E d \in DirNames, env \in EnvOutcomes("file") :
          LET r == FileManager_create_directory(d, env, fs) IN
          /\ call' = [fn |-> "create_directory", filename |-> d,
                      content |-> Directory, overwrite |-> FALSE,
                      before |-> fs]
          /\ ret' = [fn |-> "create_directory", success |-> r.result.success,
                     error |-> r.result.error]
          /\ fs' = r.fs
    /\ UNCHANGED <<plan, tasks, idx, pc, context, objective, spawned,
                   dispatched, validated, events>>

NextFiles == RunnerWrite \/ ManagerWrite \/ ManagerMkdir

SpecFiles == InitFiles /\ [][NextFiles]_vars

\* the last write went through the action runner to a file that existed
RunnerOverwrote ==
    /\ call.fn = "_execute_file_write"
    /\ PathStr(TargetPath(call.filename)) \in DOMAIN call.before

\* the last write holds: it succeeded and the file has its content
LastWriteWins ==
    /\ ret.success
    /\ fs[PathStr(TargetPath(call.filename))] = call.content

\* the last write went through FileManager.write_file without overwrite
\* to a file that existed
ManagerNoOverwrite ==
    /\ call.fn = "write_file"
    /\ ~call.overwrite
    /\ PathStr(FullPath(call.filename)) \in DOMAIN call.before

\* the write failed and changed no file
WriteRefused ==
    /\ ~ret.success
    /\ fs = call.before

DependsOnLater(n) ==
    \E d \in 1..Len(tasks[n].dependencies) :
        ResolveDep(tasks[n].dependencies[d]) > n

(* C29: a task T that depends on a task D placed later in the plan ends    *)
(* failed with the dependency error, was never handed to an agent, and     *)
(* stays so when D completes afterwards: T is not examined again.          *)
C29_LaterDependencyFails ==
    \A n \in 1..Len(tasks) :
        (DependsOnLater(n) /\ n < idx) =>
            /\ tasks[n].status = "failed"
            /\ tasks[n].error = <<"Dependencies not met">>
            /\ ~Dispatched(n)

\* the first task depends on the second, the second completed and the run
\* ended with the first still failed
C29_Witness ==
    /\ pc = "done"
    /\ Len(tasks) = 2
    /\ tasks[1].dependencies = <<"task_2">>
    /\ tasks[1].id = "task_1" /\ tasks[2].id = "task_2"
    /\ DependsOnLater(1)
    /\ tasks[2].status = "completed"
    /\ tasks[1].status = "failed"
    /\ tasks[1].error = <<"Dependencies not met">>

\* the positions of the stream at which the task_start of task n stands
StartsOf(n) ==
    {k \in 1..Len(events) :
        events[k].type = "task_start" /\ events[k].task_number = n}

\* the turn of task n has begun / is over
TurnBegun(n) == n < idx \/ (n = idx /\ pc \in {"exec", "blocked"})
TurnOver(n)  == n < idx

\* the positions of the stream that belong to task n: from its task_start
\* to the task_start of the next task or to the objective_complete
SegmentOf(n) ==
    LET first == Min(StartsOf(n))
        after == {k \in (first + 1)..Len(events) :
                     events[k].type \in {"task_start", "objective_complete"}}
    IN  first..(IF after = {} THEN Len(events) ELSE Min(after) - 1)

\* the terminal events of task n
TerminalsOf(n) ==
    {k \in SegmentOf(n) : events[k].type \in {"task_complete", "task_failed"}}

\* objective_start is the first event and objective_complete, once the run
\* has ended, the last and only one
StreamFramed ==
    /\ events[1].type = "objective_start"
    /\ \A k \in 2..Len(events) : events[k].type # "objective_start"
    /\ \A k \in 1..Len(events) :
          events[k].type = "objective_complete" =>
              pc = "done" /\ k = Len(events)
    /\ pc = "done" => events[Len(events)].type = "objective_complete"

\* one task_start for each task whose turn has begun, in plan order, and no
\* executing event outside the segment of a task
TaskStartFirst ==
    /\ \A n \in 1..Len(tasks) :
          Cardinality(StartsOf(n)) = IF TurnBegun(n) THEN 1 ELSE 0
    /\ \A n \in 1..Len(tasks) : \A m \in 1..(n - 1) :
          TurnBegun(n) => Min(StartsOf(m)) < Min(StartsOf(n))
    /\ \A k \in 1..Len(events) :
          events[k].type = "executing" =>
              \E n \in 1..Len(tasks) :
                  /\ TurnBegun(n)
                  /\ k \in SegmentOf(n)
                  /\ events[k].task_id = tasks[n].id

\* the task at position n has one terminal event, of the type of its status
TerminalMatches(n) ==
    /\ Cardinality(TerminalsOf(n)) = 1
    /\ \A k \in TerminalsOf(n) :
          /\ events[k].task_id = tasks[n].id
          /\ events[k].type = IF tasks[n].status = "failed"
                              THEN "task_failed" ELSE "task_complete"

(* C30: in the event stream of a run objective_start is the first event    *)
(* and objective_complete the last; every task has exactly one task_start, *)
(* before any executing event of it, and exactly one terminal event of     *)
(* task_complete and task_failed before the task_start of the next task,   *)
(* which is task_failed for every task that ends failed, the tasks with    *)
(* unmet dependencies included.                                            *)
C30_EventStream ==
    /\ StreamFramed
    /\ TaskStartFirst
    /\ \A n \in 1..Len(tasks) : TurnOver(n) => TerminalMatches(n)

\* the same for the tasks that were handed to an agent; a task with unmet
\* dependencies has the event task_skipped and no terminal event
C30_EventStreamOfDispatched ==
    /\ StreamFramed
    /\ TaskStartFirst
    /\ \A n \in 1..Len(tasks) :
          TurnOver(n) =>
              IF Dispatched(n) THEN TerminalMatches(n)
              ELSE /\ TerminalsOf(n) = {}
                   /\ \E k \in SegmentOf(n) : events[k].type = "task_skipped"

----------------------------------------------------------------------------
(* execute_objective with a progress_callback that may raise: _emit_progress *)
(* (orchestrator.py:39-47) calls it with no try around the call             *)

\* str(e) of the exception the observer raises
ObserverError == <<"observer failed">>

\* how the except branch of _execute_task (lines 259-268) and the else
\* branch of the loop (114-118) end after the observer raised inside the try
HandlerOutcomes == {"contained", "task_error_raises", "task_failed_raises"}

\* the updates handed to the observer by that branch
HandlerEvents(task_id, o) ==
    IF o = "task_error_raises"
    THEN <<Event("task_error", task_id, 0)>>
    ELSE <<Event("task_error", task_id, 0), Event("task_failed", task_id, 0)>>

\* lines 55-76: the observer raises on objective_start, decomposing or
\* tasks_created; the tasks exist from line 62 on
StartObserverRaises ==
    /\ pc = "loop"
    /\ idx = 1
    /\ Len(events) = 3
    /\ \E k \in 1..3 :
          /\ events' = SubSeq(events, 1, k)
          /\ tasks' = IF k < 3 THEN <<>> ELSE tasks
    /\ pc' = "raised"
    /\ UNCHANGED <<plan, idx, context, objective, fs, spawned, dispatched,
                   validated, call, ret>>

\* lines 82-86: the observer raises on task_start
TaskStartObserverRaises ==
    /\ pc = "loop"
    /\ idx <= Len(tasks)
    /\ events' = Append(events, Event("task_start", tasks[idx].id, idx))
    /\ pc' = "raised"
    /\ UNCHANGED <<plan, tasks, idx, context, objective, fs, spawned,
                   dispatched, validated, call, ret>>

\* lines 89-95: the observer raises on task_skipped
SkipTaskObserverRaises ==
    /\ pc = "loop"
    /\ idx <= Len(tasks)
    /\ ~_check_dependencies(tasks[idx], tasks)
    /\ tasks' = [tasks EXCEPT ![idx].status = "failed",
                              ![idx].error = <<"Dependencies not met">>]
    /\ events' = events \o <<Event("task_start", tasks[idx].id, idx),
                             Event("task_skipped", None, 0)>>
    /\ pc' = "raised"
    /\ UNCHANGED <<plan, idx, context, objective, fs, spawned, dispatched,
                   validated, call, ret>>

\* lines 219-225 and 259-268: the observer raises on executing, inside the
\* try of _execute_task, before the agent is called
BeginTaskObserverRaises ==
    /\ pc = "loop"
    /\ idx <= Len(tasks)
    /\ _check_dependencies(tasks[idx], tasks)
    /\ tasks' = [tasks EXCEPT ![idx].status = "failed",
                              ![idx].error = ObserverError]
    /\ \E o \in HandlerOutcomes :
          /\ events' = events
                         \o <<Event("task_start", tasks[idx].id, idx),
                              Event("executing", tasks[idx].id, 0)>>
                         \o HandlerEvents(tasks[idx].id, o)
          /\ pc' = IF o = "contained" THEN "loop" ELSE "raised"
          /\ idx' = IF o = "contained" THEN idx + 1 ELSE idx
    /\ UNCHANGED <<plan, context, objective, fs, spawned, dispatched,
                   validated, call, ret>>

\* lines 234-253 and 259-268: the executor returned and the observer raises
\* on action_complete or action_failed, inside the try of _execute_task
RunActionObserverRaises ==
    /\ pc = "exec"
    /\ _get_agent_for_task(tasks[idx]) = "executor"
    /\ \E env \in EnvOutcomes(tasks[idx].metadata.type), o \in HandlerOutcomes :
          LET r == ExecutionAgent_execute(tasks[idx], env, fs, spawned) IN
          /\ r.result # Blocked
          /\ tasks' = [tasks EXCEPT ![idx].result = r.result,
                                    ![idx].action_result = r.action_result,
                                    ![idx].status = "failed",
                                    ![idx].error = ObserverError]
          /\ fs' = r.fs
          /\ spawned' = r.spawned
          /\ events' = events
                         \o <<Event(IF r.action_result.success
                                    THEN "action_complete"
                                    ELSE "action_failed", None, 0)>>
                         \o HandlerEvents(tasks[idx].id, o)
          /\ pc' = IF o = "contained" THEN "loop" ELSE "raised"
          /\ idx' = IF o = "contained" THEN idx + 1 ELSE idx
    /\ dispatched' = Append(dispatched, [task |-> idx, agent |-> "executor",
                                         raised |-> None])
    /\ UNCHANGED <<plan, context, objective, validated, call, ret>>

\* lines 101-112: the executor returned, the task is completed and recorded,
\* and the observer raises on task_complete
RunActionCompleteObserverRaises ==
    /\ pc = "exec"
    /\ _get_agent_for_task(tasks[idx]) = "executor"
    /\ \E env \in EnvOutcomes(tasks[idx].metadata.type) :
          LET r == ExecutionAgent_execute(tasks[idx], env, fs, spawned) IN
          /\ r.result # Blocked
          /\ tasks' = [tasks EXCEPT ![idx].result = r.result,
                                    ![idx].action_result = r.action_result,
                                    ![idx].status = "completed"]
          /\ context' = ContextPut(context, tasks[idx].id, r.result)
          /\ objective' =
                [objective EXCEPT
                    !.actions_executed = Append(@, r.action_result),
                    !.files_generated = @ \o r.action_result.files_created]
          /\ fs' = r.fs
          /\ spawned' = r.spawned
          /\ events' = events
                         \o <<Event(IF r.action_result.success
                                    THEN "action_complete"
                                    ELSE "action_failed", None, 0),
                              Event("task_complete", tasks[idx].id, 0)>>
    /\ dispatched' = Append(dispatched, [task |-> idx, agent |-> "executor",
                                         raised |-> None])
    /\ pc' = "raised"
    /\ UNCHANGED <<plan, idx, validated, call, ret>>

\* lines 101-112: a generative worker returned and the observer raises on
\* task_complete
RunWorkerCompleteObserverRaises ==
    /\ pc = "exec"
    /\ _get_agent_for_task(tasks[idx]) # "executor"
    /\ \E result \in WorkerResults :
          /\ tasks' = [tasks EXCEPT ![idx].result = result,
                                    ![idx].status = "completed"]
          /\ context' = ContextPut(context, tasks[idx].id, result)
    /\ dispatched' = Append(dispatched,
                        [task |-> idx,
                         agent |-> _get_agent_for_task(tasks[idx]),
                         raised |-> None])
    /\ events' = Append(events, Event("task_complete", tasks[idx].id, 0))
    /\ pc' = "raised"
    /\ UNCHANGED <<plan, idx, objective, fs, spawned, validated, call, ret>>

\* lines 259-268 and 113-118: a generative worker raised and the observer
\* raises on task_error or on task_failed
RunWorkerRaisesObserverRaises ==
    /\ pc = "exec"
    /\ _get_agent_for_task(tasks[idx]) # "executor"
    /\ \E e \in WorkerExceptions,
          o \in {"task_error_raises", "task_failed_raises"} :
          /\ tasks' = [tasks EXCEPT ![idx].status = "failed",
                                    ![idx].error = e]
          /\ dispatched' = Append(dispatched,
                                [task |-> idx,
                                 agent |-> _get_agent_for_task(tasks[idx]),
                                 raised |-> e])
          /\ events' = events \o HandlerEvents(tasks[idx].id, o)
    /\ pc' = "raised"
    /\ UNCHANGED <<plan, idx, context, objective, fs, spawned, validated,
                   call, ret>>

\* lines 121-133: the observer raises on objective_complete
FinalizeObserverRaises ==
    /\ pc = "loop"
    /\ idx > Len(tasks)
    /\ objective' = [objective EXCEPT
                        !.final_result = _aggregate_results(tasks, objective),
                        !.status = _determine_status(tasks)]
    /\ events' = Append(events, Event("objective_complete", None, 0))
    /\ pc' = "raised"
    /\ UNCHANGED <<plan, tasks, idx, context, fs, spawned, dispatched,
                   validated, call, ret>>

NextObserver ==
    \/ Next
    \/ StartObserverRaises
    \/ TaskStartObserverRaises
    \/ SkipTaskObserverRaises
    \/ BeginTaskObserverRaises
    \/ RunActionObserverRaises
    \/ RunActionCompleteObserverRaises
    \/ RunWorkerCompleteObserverRaises
    \/ RunWorkerRaisesObserverRaises
    \/ FinalizeObserverRaises

SpecObserver == Init /\ [][NextObserver]_vars

(* C31: a failure of the progress observer is tolerated: whatever event    *)
(* the observer raises on, execute_objective does not raise and no task    *)
(* ends with a status or result other than in the run whose observer never *)
(* raises (no task is failed with the observer's exception as its error).  *)
C31_ObserverTolerated ==
    /\ pc # "raised"
    /\ \A n \in 1..Len(tasks) : tasks[n].error # ObserverError

\* the exception of the observer never leaves a task in_progress or
\* pending behind its turn: a raise inside the try fails the task
C31_RaiseInsideTryFailsTask ==
    \A n \in 1..Len(tasks) :
        tasks[n].error = ObserverError => tasks[n].status = "failed"

RECURSIVE OutcomesUpTo(_)
\* the ActionResults attached to the first n tasks, in plan order
OutcomesUpTo(n) ==
    IF n = 0 THEN <<>>
    ELSE IF ActionAttached(n)
         THEN Append(OutcomesUpTo(n - 1), tasks[n].action_result)
         ELSE OutcomesUpTo(n - 1)

RECURSIVE FilesOf(_)
\* the concatenation of the files_created of a list of ActionResults
FilesOf(outcomes) ==
    IF outcomes = <<>> THEN <<>>
    ELSE outcomes[1].files_created \o FilesOf(Tail(outcomes))

\* the path is the file_path of a file-write task whose write succeeded and
\* whose file is on the file system
SuccessfulWrite(path) ==
    \E n \in 1..Len(tasks) :
        /\ tasks[n].metadata.type = "file"
        /\ tasks[n].metadata.file_path = path
        /\ ActionAttached(n)
        /\ tasks[n].action_result.success
        /\ PathStr(TargetPath(path)) \in DOMAIN fs

(* C32: when a run ends, actions_executed is the sequence, in plan order   *)
(* and with one entry per task, of the ActionResults of the tasks that     *)
(* went through the action runner, and files_generated is the              *)
(* concatenation in that order of their files_created, every path of which *)
(* is the path of a successful file write.                                 *)
C32_ActionsRecorded ==
    pc = "done" =>
        /\ objective.actions_executed = OutcomesUpTo(Len(tasks))
        /\ Len(objective.actions_executed) =
              Cardinality({n \in 1..Len(tasks) :
                              Dispatched(n) /\ ActionAttached(n)})
        /\ objective.files_generated = FilesOf(objective.actions_executed)
        /\ \A k \in 1..Len(objective.files_generated) :
              SuccessfulWrite(objective.files_generated[k])

\* a run of a blocked command followed by a file write ended with two
\* outcomes and one file
C32_Witness ==
    /\ pc = "done"
    /\ Len(tasks) = 2
    /\ tasks[1].metadata.type = "command"
    /\ tasks[2].metadata.type = "file"
    /\ Len(objective.actions_executed) = 2
    /\ ~objective.actions_executed[1].success
    /\ objective.actions_executed[2].success
    /\ objective.files_generated = <<tasks[2].metadata.file_path>>

\* the content holds the token of one of the task's declared dependencies
HoldsDeclaredToken(task) ==
    \E d \in 1..Len(task.dependencies) :
        Contains(task.metadata.content, Placeholder(task.dependencies[d]))

\* the id is not among the declared dependencies of the task
Undeclared(task, id) ==
    \A d \in 1..Len(task.dependencies) : task.dependencies[d] # id

\* the step of _execute_task that binds the task at idx (lines 219-228)
BindingFrame ==
    (pc = "loop" /\ pc' = "exec") =>
        LET before == tasks[idx]
            after  == tasks'[idx]
        IN  /\ context' = context
            /\ Len(tasks') = Len(tasks)
            /\ \A m \in 1..Len(tasks) : m # idx => tasks'[m] = tasks[m]
            /\ after = [before EXCEPT
                            !.status = "in_progress",
                            !.metadata.content = after.metadata.content]
            /\ (Truthy(before.metadata.content) /\ ~HoldsDeclaredToken(before))
                  => after.metadata.content = before.metadata.content
            /\ ~Truthy(before.metadata.content)
                  => after.metadata.content = before.metadata.content
            /\ \A id \in DOMAIN context :
                  (/\ Undeclared(before, id)
                   /\ Truthy(before.metadata.content)
                   /\ Contains(before.metadata.content, Placeholder(id)))
                  => Contains(after.metadata.content, Placeholder(id))

(* C33: binding changes nothing but the content field of the metadata of   *)
(* the task being bound: its other metadata keys, its other fields (the    *)
(* status set on entry apart), the other tasks and the output map are      *)
(* unchanged; content is unchanged when it holds no token of a declared    *)
(* dependency, and a token that names a completed task which is not a      *)
(* declared dependency is not replaced.                                    *)
C33_BindingFrame == [][BindingFrame]_vars

\* the second task was bound with the token of the completed first task in
\* its content and no declared dependency: the token is still there
C33_Witness ==
    /\ pc = "exec"
    /\ idx = 2
    /\ tasks[1].id = "task_1"
    /\ tasks[1].status = "completed"
    /\ Truthy(tasks[1].result)
    /\ "task_1" \in DOMAIN context
    /\ tasks[2].dependencies = <<>>
    /\ Contains(plan[2].metadata.content, Placeholder("task_1"))
    /\ tasks[2].metadata.content = plan[2].metadata.content

\* the direct call was a server action and has returned
ServerReturned ==
    /\ pc = "returned"
    /\ tasks[1].metadata.type = "server"

\* the parameters ask for a start and name a start command
StartRequested ==
    /\ tasks[1].metadata.action = <<"start">>
    /\ Truthy(tasks[1].metadata.start_command)

(* C34: a server-start action spawns a process only when the action        *)
(* parameter equals start and a start command is present; it then returns  *)
(* success with the process id and has not waited for the process; with    *)
(* any other action value or a missing start command it returns a failure  *)
(* and spawns nothing.                                                     *)
C34_ServerStart ==
    ServerReturned =>
        /\ spawned # <<>> =>
              /\ StartRequested
              /\ Len(spawned) = 1
              /\ spawned[1] = Proc(tasks[1].metadata.start_command, "running")
              /\ tasks[1].action_result.success
              /\ tasks[1].action_result.output = <<"{\"pid\":", "4242", "}">>
        /\ ~StartRequested =>
              /\ spawned = <<>>
              /\ ~tasks[1].action_result.success
              /\ Truthy(tasks[1].action_result.error)

\* a server was started with the command ls
C34_Witness ==
    /\ ServerReturned
    /\ StartRequested
    /\ tasks[1].metadata.start_command = CmdLs
    /\ spawned = <<Proc(CmdLs, "running")>>
    /\ tasks[1].action_result.success

(* C35: across the action kinds of the action runner (process-command and  *)
(* server-start), no subprocess is ever spawned for a command string that  *)
(* the command safety check rejects.                                       *)
C35_NoRejectedCommandSpawned ==
    \A k \in 1..Len(spawned) : _validate_command(spawned[k].command).is_safe

\* the same for the process-command kind alone
C35_CommandKindChecked ==
    tasks[1].metadata.type = "command" =>
        \A k \in 1..Len(spawned) :
            _validate_command(spawned[k].command).is_safe

\* the command of the entry contains a pattern of DANGEROUS_SHELL_PATTERNS
HasDangerousCommand(entry) ==
    /\ entry.metadata.type = "command"
    /\ entry.metadata.command # Absent
    /\ \E k \in 1..Len(DANGEROUS_SHELL_PATTERNS) :
          Contains(entry.metadata.command, DANGEROUS_SHELL_PATTERNS[k])

\* the task created from the entry is run by the executor as a command
IsCommandTask(entry) ==
    /\ entry.metadata.type = "command"
    /\ _get_agent_for_task(
           [agent_type |-> AgentTypeOf(LowerTag(entry.agent_type))])
          = "executor"

\* decompose_objective returned the fallback plan and nothing of the
\* planner's output
PlanDiscarded ==
    /\ ret.specs = _create_fallback_task(ObjectiveText)
    /\ \A n \in 1..Len(call.arg.entries) : \A m \in 1..Len(ret.specs) :
          ret.specs[m] # [call.arg.entries[n] EXCEPT
                              !.agent_type = LowerTag(@)]

(* C36: when the planner's output holds at least one command task whose    *)
(* command contains a planner-level dangerous pattern, the whole plan is   *)
(* discarded: decompose_objective returns the fallback plan and no task of *)
(* the rejected plan, dangerous or not, is handed on to be created and     *)
(* executed.                                                               *)
C36_DangerousPlanDiscarded ==
    (/\ pc = "return"
     /\ call.fn = "decompose_objective"
     /\ call.arg.kind = "list"
     /\ \E n \in 1..Len(call.arg.entries) :
           /\ IsCommandTask(call.arg.entries[n])
           /\ HasDangerousCommand(call.arg.entries[n])) =>
        PlanDiscarded

\* the same for the command entries whose tag is execution
C36_TaggedExecutionDiscarded ==
    (/\ pc = "return"
     /\ call.fn = "decompose_objective"
     /\ call.arg.kind = "list"
     /\ \E n \in 1..Len(call.arg.entries) :
           /\ LowerTag(call.arg.entries[n].agent_type) = "execution"
           /\ HasDangerousCommand(call.arg.entries[n])) =>
        PlanDiscarded

----------------------------------------------------------------------------
(* A run of execute_objective on the fallback plan *)

\* the tasks execute_objective creates from the fallback plan
FallbackTasks == _create_tasks(_create_fallback_task(ObjectiveText))

InitFallback ==
    /\ plan = FallbackTasks
    /\ tasks = plan
    /\ idx = 1
    /\ pc = "loop"
    /\ context = EmptyMap
    /\ objective = [status |-> "in_progress", actions_executed |-> <<>>,
                    files_generated |-> <<>>, final_result |-> None]
    /\ fs = EmptyMap
    /\ spawned = <<>>
    /\ dispatched = <<>>
    /\ validated = <<>>
    /\ call = NoCall
    /\ ret = NoRet
    /\ events = <<Event("objective_start", None, 0),
                 Event("decomposing", None, 0),
                 Event("tasks_created", None, 0)>>

\* the steps of the loop on a plan of generation and file-write tasks (no
\* task of the fallback plan runs a command, so no call blocks)
NextFallback ==
    \/ SkipTask
    \/ BeginTask
    \/ RunAction
    \/ RunActionRaises
    \/ RunWorker
    \/ RunWorkerRaises
    \/ Finalize

SpecFallback == InitFallback /\ [][NextFallback]_vars

\* the ids of the fallback plan
FallbackIds ==
    {"task_1", "task_2", "task_3", "task_4", "task_5", "task_6", "task_7",
     "task_8"}

\* ids are unique, every dependency names an earlier task, and every token
\* in the content of a file-write task names a declared dependency of it
WellFormedPlan(p) ==
    /\ \A a, b \in 1..Len(p) : p[a].id = p[b].id => a = b
    /\ \A n \in 1..Len(p) : \A d \in 1..Len(p[n].dependencies) :
          \E m \in 1..(n - 1) : p[m].id = p[n].dependencies[d]
    /\ \A n \in 1..Len(p) :
          p[n].metadata.type = "file" =>
              /\ \E id \in FallbackIds :
                    Contains(p[n].metadata.content, Placeholder(id))
              /\ \A id \in FallbackIds :
                    Contains(p[n].metadata.content, Placeholder(id)) =>
                        \E d \in 1..Len(p[n].dependencies) :
                            p[n].dependencies[d] = id

\* the run ended and every capability call made in it succeeded
AllCallsSucceeded ==
    /\ pc = "done"
    /\ \A k \in 1..Len(dispatched) : dispatched[k].raised = None
    /\ \A n \in 1..Len(tasks) :
          ActionAttached(n) => tasks[n].action_result.success

\* no file on disk holds a placeholder token
NoTokenOnDisk ==
    \A path \in DOMAIN fs : \A id \in FallbackIds :
        ~Contains(fs[path], Placeholder(id))

(* C37: the fallback plan is well-formed for plan-order execution (unique  *)
(* ids, every dependency names an earlier task, every content token names  *)
(* a declared dependency), so that when every capability call succeeds all *)
(* fallback tasks end completed and no placeholder token is written to     *)
(* disk.                                                                   *)
C37_FallbackRuns ==
    /\ WellFormedPlan(plan)
    /\ AllCallsSucceeded =>
          /\ \A n \in 1..Len(tasks) : tasks[n].status = "completed"
          /\ NoTokenOnDisk

\* the same when every generation task returned a non-empty text
C37_FallbackRunsNonEmpty ==
    /\ WellFormedPlan(plan)
    /\ (AllCallsSucceeded
        /\ \A n \in 1..Len(tasks) :
              tasks[n].agent_type = "code" => Truthy(tasks[n].result)) =>
          /\ \A n \in 1..Len(tasks) : tasks[n].status = "completed"
          /\ DOMAIN fs # {}
          /\ NoTokenOnDisk

\* the last call was a FileManager operation that creates or modifies an
\* entry of the file system
ManagerModifies == call.fn \in {"write_file", "create_directory"}

(* C38: every FileManager operation that creates or modifies a file system *)
(* entry (write_file, create_directory) does so only inside the workspace  *)
(* directory; a name that resolves outside the workspace yields a failed   *)
(* ActionResult and no change of the file system.                          *)
C38_ManagerInsideWorkspace ==
    ManagerModifies =>
        /\ fs # call.before => InsideWorkspace(FullPath(call.filename))
        /\ ~InsideWorkspace(FullPath(call.filename)) =>
              /\ ~ret.success
              /\ fs = call.before

\* write_file refuses a name that resolves outside the workspace unless the
\* resolved path begins with the characters of the workspace path
C38_WriteFileUnlessPrefix ==
    (/\ call.fn = "write_file"
     /\ ~InsideWorkspace(FullPath(call.filename))
     /\ ~InWorkspaceByPrefix(FullPath(call.filename))) =>
        /\ ~ret.success
        /\ ret.error = <<"Unsafe path: ", "Path outside workspace not allowed">>
        /\ fs = call.before

----------------------------------------------------------------------------
(* ShellExecutor: tools/shell_executor.py *)

\* the longest command list handed to execute_multiple
MaxCommands == 2

\* the members of the enumeration ActionType, config/models.py lines 32-38
ActionTypeNames ==
    {"FILE_WRITE", "FILE_READ", "COMMAND_RUN", "CODE_EXECUTE", "API_CALL"}

AttributeError == <<"AttributeError">>

\* the attribute access ActionType.<name>
ActionType_attr(name) ==
    IF name \in ActionTypeNames THEN name ELSE AttributeError

\* settings.ALLOWED_COMMANDS and settings.BLOCKED_COMMANDS,
\* config/settings.py lines 39-45
ALLOWED_COMMANDS ==
    {<<"l","s">>, <<"c","a","t">>, <<"e","c","h","o">>, <<"p","w","d">>,
     <<"w","h","o","a","m","i">>, <<"d","a","t","e">>,
     <<"p","y","t","h","o","n">>, <<"p","i","p">>, <<"g","i","t">>,
     <<"c","u","r","l">>, <<"w","g","e","t">>}

BLOCKED_COMMANDS ==
    <<FragRmRf, FragMkfs, <<"d","d">>, <<"f","o","r","k">>, <<":","(",")">>,
      FragShutdown, FragReboot>>

\* shlex.split(command)[0] for a command without escapes: the leading blanks
\* are skipped and the first word ends at the next blank; an unmatched quote
\* makes shlex.split raise ValueError
RECURSIVE SkipBlanks(_)
SkipBlanks(s) ==
    IF s # <<>> /\ Head(s) = " " THEN SkipBlanks(Tail(s)) ELSE s

RECURSIVE FirstWord(_)
FirstWord(s) ==
    IF s = <<>> \/ Head(s) = " " THEN <<>>
    ELSE <<Head(s)>> \o FirstWord(Tail(s))

UnmatchedQuote(s) ==
    Cardinality({n \in 1..Len(s) : s[n] = "'"}) % 2 = 1

\* ShellExecutor.is_safe_command(command), lines 20-47
is_safe_command(command) ==
    IF \E n \in 1..Len(BLOCKED_COMMANDS) : Contains(command, BLOCKED_COMMANDS[n])
    THEN [is_safe |-> FALSE, reason |-> <<"Blocked command pattern">>]
    ELSE IF UnmatchedQuote(command)
    THEN [is_safe |-> FALSE, reason |-> <<"Invalid command syntax">>]
    ELSE IF SkipBlanks(command) = <<>>
    THEN [is_safe |-> FALSE, reason |-> <<"Empty command">>]
    ELSE IF FirstWord(SkipBlanks(command)) \notin ALLOWED_COMMANDS
    THEN [is_safe |-> FALSE, reason |-> <<"Command not in allowed list">>]
    ELSE [is_safe |-> TRUE, reason |-> None]

\* the construction ActionResult(action_type=ActionType.SHELL_COMMAND, ...)
\* of lines 70-74, 91-102, 104-108 and 111-115: the attribute access comes
\* first and raises when the enumeration has no such member
ShellResult(success, output, error) ==
    IF ActionType_attr("SHELL_COMMAND") = AttributeError
    THEN Raise(AttributeError)
    ELSE ActionResult(ActionType_attr("SHELL_COMMAND"), success, output,
                      error, <<>>)

\* the outcomes of subprocess.run(command, shell=True, capture_output=True,
\* timeout=timeout), line 77: the shell exits with 0 or with another code, it
\* outlives the timeout and is killed and waited for, or it cannot be started
ShellOutcomes == {"exit0", "exit1", "timeout", "spawn_error"}

\* ShellExecutor.execute(command), lines 49-115: the rejection of lines 69-74
\* is outside the try; what the try raises, the construction of line 91
\* included, reaches the handler of lines 109-115, and what a handler raises
\* leaves the method
ShellExecutor_execute(command, env, sp) ==
    IF ~is_safe_command(command).is_safe
    THEN [result |-> ShellResult(FALSE, None, <<"Command blocked">>),
          spawned |-> sp]
    ELSE IF env = "spawn_error"
    THEN [result |-> ShellResult(FALSE, None, <<"OSError">>), spawned |-> sp]
    ELSE IF env = "timeout"
    THEN [result |-> ShellResult(FALSE, None, <<"Command timeout">>),
          spawned |-> Append(sp, Proc(command, "collected"))]
    ELSE LET r == ShellResult(env = "exit0", <<"out">>,
                      IF env = "exit0" THEN None ELSE <<"err">>) IN
         [result |-> IF r = Raise(AttributeError)
                     THEN ShellResult(FALSE, None, AttributeError)
                     ELSE r,
          spawned |-> Append(sp, Proc(command, "collected"))]

\* the command strings handed to execute_multiple
ShellCommands ==
    {CmdLs, <<"e","c","h","o"," ","h","i">>, CmdSudoLs, FragReboot, <<>>,
     <<"e","c","h","o"," ","'","h","i">>}

RECURSIVE ListsUpTo(_, _)
ListsUpTo(S, n) ==
    IF n = 0 THEN {<<>>}
    ELSE ListsUpTo(S, n - 1) \cup
         {Append(l, c) : l \in {m \in ListsUpTo(S, n - 1) : Len(m) = n - 1},
                         c \in S}

\* a call ShellExecutor().execute_multiple(commands, stop_on_error), before
\* its loop of line 134
InitShell ==
    /\ plan = <<>>
    /\ tasks = <<>>
    /\ idx = 1
    /\ pc = "shell"
    /\ context = EmptyMap
    /\ objective = [status |-> "pending", actions_executed |-> <<>>,
                    files_generated |-> <<>>, final_result |-> None]
    /\ fs = EmptyMap
    /\ spawned = <<>>
    /\ dispatched = <<>>
    /\ validated = <<>>
    /\ \E cmds \in ListsUpTo(ShellCommands, MaxCommands),
          stop \in BOOLEAN :
          call = [fn |-> "execute_multiple", commands |-> cmds,
                  stop_on_error |-> stop]
    /\ ret = [fn |-> "execute_multiple", results |-> <<>>]
    /\ events = <<>>

\* one turn of the loop of execute_multiple, lines 134-140
ShellExecuteNext ==
    /\ pc = "shell"
    /\ idx <= Len(call.commands)
    /\ \E env \in ShellOutcomes :
          LET r == ShellExecutor_execute(call.commands[idx], env, spawned) IN
          /\ dispatched' = Append(dispatched, call.commands[idx])
          /\ spawned' = r.spawned
          /\ IF r.result = Raise(AttributeError)
             THEN /\ pc' = "raised"
                  /\ UNCHANGED <<ret, idx>>
             ELSE /\ ret' = [ret EXCEPT !.results = Append(@, r.result)]
                  /\ IF call.stop_on_error /\ ~r.result.success
                     THEN pc' = "returned" /\ UNCHANGED idx
                     ELSE pc' = "shell" /\ idx' = idx + 1
    /\ UNCHANGED <<plan, tasks, context, objective, fs, validated, call,
                   events>>

\* the end of the loop and return results, line 142
ShellReturn ==
    /\ pc = "shell"
    /\ idx > Len(call.commands)
    /\ pc' = "returned"
    /\ UNCHANGED <<plan, tasks, idx, context, objective, fs, spawned,
                   dispatched, validated, call, ret, events>>

NextShell == ShellExecuteNext \/ ShellReturn

SpecShell == InitShell /\ [][NextShell]_vars

----------------------------------------------------------------------------
(* execute_multiple with stop_on_error *)

ShellCallOver == pc \in {"returned", "raised"}

\* the results are those of the commands executed, in order, and only the
\* last of them may be unsuccessful
ResultsEndAtFirstFailure ==
    /\ Len(ret.results) = Len(dispatched)
    /\ dispatched = SubSeq(call.commands, 1, Len(dispatched))
    /\ \A k \in 1..(Len(ret.results) - 1) : ret.results[k].success
    /\ \/ Len(ret.results) = Len(call.commands)
       \/ /\ ret.results # <<>>
          /\ ~ret.results[Len(ret.results)].success

\* C39: a call of execute_multiple with stop_on_error does not raise; it
\* returns one ActionResult for each command it executed, in the order of
\* the list, the last of them being that of the first command that was
\* blocked, exited with a code other than 0 or timed out; no command after
\* that one is executed or spawned.
C39_StopOnFirstFailure ==
    (call.fn = "execute_multiple" /\ call.stop_on_error)
        => /\ pc # "raised"
           /\ pc = "returned" => ResultsEndAtFirstFailure
           /\ \A k \in 1..Len(spawned) :
                  \E n \in 1..Len(dispatched) :
                      spawned[k].command = dispatched[n]

\* every call of execute_multiple on a list that is not empty ends in the
\* AttributeError of its first command, after that command ran when
\* is_safe_command accepted it; the call on the empty list returns the
\* empty list
C39_RaisesOnFirstCommand ==
    (call.fn = "execute_multiple" /\ ShellCallOver)
        => /\ ret.results = <<>>
           /\ pc = "raised" <=> call.commands # <<>>
           /\ pc = "raised" => dispatched = <<call.commands[1]>>
           /\ \A k \in 1..Len(spawned) :
                  /\ spawned[k].command = call.commands[1]
                  /\ is_safe_command(call.commands[1]).is_safe

====
